---- MODULE Spec2Model ----
(***************************************************************************)
(* Rules engine of the Clue board game: board geometry, movement, the      *)
(* suggestion / accusation protocol and the detective notebooks, as        *)
(* implemented in src/clue_game/game_state.py, notebook.py and             *)
(* tools/game_tools.py, driven turn by turn as in main.py (run_game).      *)
(***************************************************************************)
EXTENDS Integers, Sequences, FiniteSets, TLC

(***************************************************************************)
(* Bounds of the model.                                                    *)
(***************************************************************************)
\* largest face a die shows in the model (the program rolls 1..6)
MaxDie == 2
\* tool calls and turn advances followed after setup, whole game
MaxCalls == 4
\* tool calls followed after setup when only movement and suggestions are made
MaxMoveCalls == 5
\* number of players of the games played in the model
NumPlayers == 3
\* number of character orders random.shuffle may produce in the model
MaxCharOrder == 1
\* number of solutions random.choice may produce in the games of the model
MaxSol == 1
\* largest rotation random.shuffle applies to the deck in the games of the model
MaxDeckShift == 0
\* largest rotation random.shuffle applies to the deck when only the deal is checked
MaxDealShift == 2
\* number of suspects / weapons / rooms the agents name in tool calls
\* notebook operations followed after setup
MaxNoteCalls == 2
\* players whose notebook is operated on
MaxOwners == 1
\* tool calls followed after setup when any name is passed to the tools
MaxRejectCalls == 4
\* max_retries and base_delay given to retry_with_backoff
MaxRetries == 3
MaxBaseDelay == 2
\* calls made around the resets of the game and of the notebooks
MaxResetCalls == 4
\* accusations and turn advances followed when only the turn order is checked
MaxTurnCalls == 6
\* marks followed when mark_card is called with any card and owner
MaxMarkCalls == 2
\* rolls, moves, suggestions and room exits followed when the exits are checked
MaxExitCalls == 5
\* tool calls and room exits followed when the cells visited in a turn are checked
MaxVisitCalls == 3
\* largest face of a die there: rooms six steps away are in reach of a roll
MaxVisitDie == 3
\* operations on the notebook when it is fed true events only
MaxTrueCalls == 2
\* cards of each category named in the true suggestions
MaxTrueNamed == 3
MaxNamed == 2

(***************************************************************************)
(* Enumerations and constant tables.                                       *)
(***************************************************************************)
None == "None"
NoPos == <<>>

Suspect == <<"Miss Scarlet", "Colonel Mustard", "Mrs. White",
             "Mr. Green", "Mrs. Peacock", "Professor Plum">>
Weapon == <<"Candlestick", "Knife", "Lead Pipe", "Revolver", "Rope", "Wrench">>
Room == <<"Kitchen", "Ballroom", "Conservatory", "Billiard Room", "Library",
          "Study", "Hall", "Lounge", "Dining Room">>

Range(s) == {s[i] : i \in 1..Len(s)}

BOARD_WIDTH == 24
BOARD_HEIGHT == 25

ROOM_CODES ==
  [ch \in {"K", "B", "C", "D", "I", "L", "O", "A", "S"} |->
     CASE ch = "K" -> "Kitchen"
       [] ch = "B" -> "Ballroom"
       [] ch = "C" -> "Conservatory"
       [] ch = "D" -> "Dining Room"
       [] ch = "I" -> "Billiard Room"
       [] ch = "L" -> "Library"
       [] ch = "O" -> "Lounge"
       [] ch = "A" -> "Hall"
       [] ch = "S" -> "Study"]

\* str.upper() on the lower-case letters that occur in the layout
Upper(ch) ==
  CASE ch = "k" -> "K" [] ch = "b" -> "B" [] ch = "c" -> "C"
    [] ch = "d" -> "D" [] ch = "i" -> "I" [] ch = "l" -> "L"
    [] ch = "o" -> "O" [] ch = "a" -> "A" [] ch = "s" -> "S"
    [] OTHER -> ch

IsLower(ch) == ch \in {"k", "b", "c", "d", "i", "l", "o", "a", "s"}

\* rows 0..24 of the layout; every row is a string of 25 characters
BOARD_LAYOUT ==
  <<
    <<"W","W","W","W","W","W","W","W","W","W","3","W","W","W","W","W","4","W","W","W","W","W","W","W","W">>,
    <<"K","K","K","K","K","K",".","W","H","H","H","H","H","H","H","H","W","W",".","C","C","C","C","C","C">>,
    <<"K","K","K","K","K","K",".","H","H","H","W","W","W","W","W","W","H","H",".","C","C","C","C","C","C">>,
    <<"K","K","K","K","K","K",".","H","H","W","W","B","B","B","B","W","W","H",".","C","C","C","C","C","C">>,
    <<"K","K","K","K","K","K",".","H","H","W","B","B","B","B","B","B","W","H",".","C","C","C","C","C","C">>,
    <<"K","K","K","K","K","K",".","H","H","b","B","B","B","B","B","B","b","H",".","C","C","C","C","C","c">>,
    <<"W","W","W","W","W","W","k","H","H","W","B","B","B","B","B","B","W","H","H","H","H","H","H","H","W">>,
    <<"H","H","H","H","H","H","H","H","H","W","W","W","W","W","W","W","W","H","H","H","H","H","H","H","5">>,
    <<"W",".","H","H","H","H","H","H","H","H","H","H","H","H","H","H","H","H","H","H","H","H","H","H","W">>,
    <<"D","D","D","D","D","D",".","H","H","H","H","H","H","H","H","H","H","H","H","W",".","I","I","I","I">>,
    <<"D","D","D","D","D","D",".","H","H","H","H","H","H","H","H","H","H","H","H","W",".","I","I","I","I">>,
    <<"D","D","D","D","D","D",".","H","H","H","H","H","H","H","H","H","H","H","H","W",".","I","I","I","I">>,
    <<"D","D","D","D","D","D","d","H","H","W","W","W","W","W","W","W","W","H","H","i","I","I","I","I","I">>,
    <<"D","D","D","D","D","D",".","H","H","W","A","A","A","A","A","W","H","H","H","H","I","I","I","I","I">>,
    <<"D","D","D","D","D","D",".","H","H","a","A","A","A","A","A","a","H","H","H","H","W","i","W","W","W">>,
    <<"W","W","W","W","W","W",".","H","H","W","A","A","A","A","A","A","W","H","H","H","H","H","H","H","H">>,
    <<"W","H","H","H","H","H","H","H","H","H","W","A","A","A","A","A","W","H","H","H","H","H","H","H","6">>,
    <<"W",".","H","H","H","H","H","H","H","H","W","A","A","A","A","A","A","W","H","H","H","H","H","W","W">>,
    <<"O","O","O","O","O","O","o","H","H","W","W","W","W","a","W","W","W","H","H",".","L","L","L","L","L">>,
    <<"O","O","O","O","O","O","O",".","H","H","H","H","H","H","H","H","H","H","H",".","L","L","L","L","L">>,
    <<"O","O","O","O","O","O","O",".","H","H","W","W","W","W","W","W","W","H","H",".","L","L","L","L","l">>,
    <<"O","O","O","O","O","O","O",".","H","H","W","S","S","S","S","S","W","H","H","l","L","L","L","L","L">>,
    <<"O","O","O","O","O","O","O",".","H","H","W","S","S","S","S","S","W","H","H",".","L","L","L","L","L">>,
    <<"W","W","W","W","W","W","W","2","H","H","s","S","S","S","S","S","s","H","H","W","W","W","W","W","W">>,
    <<"W","W","W","W","W","W","W","W","W","H","H","H","1","H","H","H","H","H","W","W","W","W","W","W","W">>
  >>

DOOR_POSITIONS ==
  << [pos |-> <<6, 6>>,   room |-> "Kitchen"],
     [pos |-> <<5, 8>>,   room |-> "Ballroom"],
     [pos |-> <<5, 15>>,  room |-> "Ballroom"],
     [pos |-> <<5, 22>>,  room |-> "Conservatory"],
     [pos |-> <<12, 6>>,  room |-> "Dining Room"],
     [pos |-> <<12, 17>>, room |-> "Billiard Room"],
     [pos |-> <<14, 21>>, room |-> "Billiard Room"],
     [pos |-> <<14, 9>>,  room |-> "Hall"],
     [pos |-> <<14, 15>>, room |-> "Hall"],
     [pos |-> <<18, 14>>, room |-> "Hall"],
     [pos |-> <<18, 6>>,  room |-> "Lounge"],
     [pos |-> <<20, 22>>, room |-> "Library"],
     [pos |-> <<21, 17>>, room |-> "Library"],
     [pos |-> <<23, 9>>,  room |-> "Study"],
     [pos |-> <<23, 16>>, room |-> "Study"] >>

STARTING_GRID_POSITIONS ==
  [c \in Range(Suspect) |->
     CASE c = "Miss Scarlet"    -> <<24, 11>>
       [] c = "Colonel Mustard" -> <<23, 7>>
       [] c = "Mrs. White"      -> <<0, 10>>
       [] c = "Mr. Green"       -> <<0, 15>>
       [] c = "Mrs. Peacock"    -> <<7, 23>>
       [] c = "Professor Plum"  -> <<16, 23>>]

\* a room without a secret passage maps to None
SECRET_PASSAGES ==
  [r \in Range(Room) |->
     CASE r = "Kitchen"      -> "Study"
       [] r = "Study"        -> "Kitchen"
       [] r = "Conservatory" -> "Lounge"
       [] r = "Lounge"       -> "Conservatory"
       [] OTHER              -> None]

\* the classification get_cell_type gives the layout character char
CellOfChar(char) ==
  IF char = "W" THEN [type |-> "WALL", room |-> None]
  ELSE IF char = "H" \/ char = "." THEN [type |-> "HALLWAY", room |-> None]
  ELSE IF char \in {"1", "2", "3", "4", "5", "6"}
       THEN [type |-> "START", room |-> None]
  ELSE IF char \in DOMAIN ROOM_CODES
       THEN [type |-> "ROOM", room |-> ROOM_CODES[char]]
  ELSE IF IsLower(char) /\ Upper(char) \in DOMAIN ROOM_CODES
       THEN [type |-> "DOOR", room |-> ROOM_CODES[Upper(char)]]
  ELSE [type |-> "HALLWAY", room |-> None]

\* (CellType, Room or None) of a grid cell
get_cell_type(row, col) ==
  IF row < 0 \/ row >= BOARD_HEIGHT \/ col < 0 \/ col >= BOARD_WIDTH
  THEN [type |-> "WALL", room |-> None]
  ELSE CellOfChar(BOARD_LAYOUT[row + 1][col + 1])

\* the four orthogonal neighbours, in the order up, down, left, right
get_adjacent_cells(row, col) ==
  << <<row - 1, col>>, <<row + 1, col>>, <<row, col - 1>>, <<row, col + 1>> >>

(***************************************************************************)
(* Cards and the deal (GameState.setup_game).                              *)
(***************************************************************************)
Card(name, type) == [name |-> name, card_type |-> type]

suspect_cards == [i \in 1..Len(Suspect) |-> Card(Suspect[i], "suspect")]
weapon_cards == [i \in 1..Len(Weapon) |-> Card(Weapon[i], "weapon")]
room_cards == [i \in 1..Len(Room) |-> Card(Room[i], "room")]

AllCards == suspect_cards \o weapon_cards \o room_cards

\* the names run_game hands to setup_game: the first n of PLAYER_CONFIGS
PLAYER_CONFIGS == <<"Scarlet", "Mustard", "Green", "Peacock", "Plum", "White">>

\* [c for c in deck if c not in solution cards]
RECURSIVE Filter(_, _)
Filter(s, keep) ==
  IF s = <<>> THEN <<>>
  ELSE IF Head(s) \in keep THEN <<Head(s)>> \o Filter(Tail(s), keep)
       ELSE Filter(Tail(s), keep)

\* variant: the solution cards stay in the deck
remaining_cards_with_solution(sol) == AllCards

remaining_cards(sol) ==
  Filter(AllCards, Range(AllCards) \ {sol.suspect, sol.weapon, sol.room})

\* the outcomes of random.shuffle the model draws from: rotations
Rotate(s, k) ==
  [i \in 1..Len(s) |-> s[((i - 1 + k) % Len(s)) + 1]]

\* rotation to the right by k-1 puts Miss Scarlet at index k-1
CharOrder(k) == Rotate(Suspect, (Len(Suspect) - (k - 1)) % Len(Suspect))

NewPlayer(name, character) ==
  [name |-> name,
   character |-> character,
   cards |-> <<>>,
   current_room |-> None,
   is_active |-> TRUE,
   last_suggestion_room |-> None,
   has_moved_since_suggestion |-> TRUE,
   was_moved_by_suggestion |-> FALSE,
   has_accused_this_turn |-> FALSE,
   in_hallway |-> TRUE,
   entered_room_this_turn |-> FALSE,
   position |-> STARTING_GRID_POSITIONS[character],
   moves_remaining |-> 0,
   visited_this_turn |-> {}]

\* index (1-based) of the first player whose character is Miss Scarlet, or 0
scarlet_index(ps) ==
  IF \E i \in 1..Len(ps) : ps[i].character = "Miss Scarlet"
  THEN CHOOSE i \in 1..Len(ps) :
         /\ ps[i].character = "Miss Scarlet"
         /\ \A j \in 1..(i - 1) : ps[j].character # "Miss Scarlet"
  ELSE 0

\* variant: Miss Scarlet's player changes places with the first player
ScarletSwapped(ps) ==
  LET k == scarlet_index(ps) IN
  IF k = 0 \/ k = 1 THEN ps
  ELSE [i \in 1..Len(ps) |-> IF i = 1 THEN ps[k] ELSE IF i = k THEN ps[1] ELSE ps[i]]

\* players.pop(scarlet_index); players.insert(0, scarlet_player)
ScarletFirst(ps) ==
  LET k == scarlet_index(ps) IN
  IF k = 0 \/ k = 1 THEN ps
  ELSE <<ps[k]>> \o SubSeq(ps, 1, k - 1) \o SubSeq(ps, k + 1, Len(ps))

\* for i, card in enumerate(deck): players[i % len(players)].cards.append(card)
RECURSIVE Deal(_, _, _)
Deal(ps, deck, i) ==
  IF i > Len(deck) THEN ps
  ELSE LET player_index == ((i - 1) % Len(ps)) + 1 IN
       Deal([ps EXCEPT ![player_index].cards = Append(@, deck[i])], deck, i + 1)

\* the state setup_game leaves, for the random outcomes sol, shift, order
setup_game(player_names, sol, shift, order) ==
  LET deck == Rotate(remaining_cards(sol), shift)
      available_characters == CharOrder(order)
      created == [i \in 1..Len(player_names) |->
                    NewPlayer(player_names[i], available_characters[i])]
  IN Deal(ScarletFirst(created), deck, 1)

SolutionChoices ==
  {[suspect |-> suspect_cards[i], weapon |-> weapon_cards[i], room |-> room_cards[i]] :
     i \in 1..MaxSol}

(***************************************************************************)
(* Detective notebook (notebook.py).                                       *)
(***************************************************************************)
UNKNOWN == "?"
HAS == "HAS"
NOT_HAS == "NOT_HAS"

\* the player list get_notebook uses when it creates a notebook
DEFAULT_NOTEBOOK_PLAYERS ==
  <<"Scarlet", "Mustard", "Green", "Peacock", "Plum", "White">>

CardNames == {AllCards[i].name : i \in 1..Len(AllCards)}

\* card name -> card type, as _init_cards registers the cards
CardType ==
  [n \in CardNames |-> (CHOOSE c \in Range(AllCards) : c.name = n).card_type]

CardTypeOf(card_name) == CardType[card_name]

\* DetectiveNotebook.__init__ with _init_cards / _add_card
NewNotebook(owner_name, all_player_names) ==
  [owner_name |-> owner_name,
   all_players |-> all_player_names,
   entries |-> [c \in CardNames |->
                  [card_type |-> CardTypeOf(c),
                   player_status |-> [p \in Range(all_player_names) |-> UNKNOWN],
                   envelope_status |-> UNKNOWN]]]

\* the for loop body of _check_deductions without its first deduction
DeduceEntryFromEnvelopeOnly(entry) ==
  IF entry.envelope_status = HAS
  THEN [entry EXCEPT !.player_status = [p \in DOMAIN @ |-> NOT_HAS]]
  ELSE entry

\* variant: the envelope is deduced as soon as one player lacks the card
DeduceEntryFromOnePass(entry) ==
  LET e1 == IF /\ entry.envelope_status = UNKNOWN
               /\ \E p \in DOMAIN entry.player_status : entry.player_status[p] = NOT_HAS
            THEN [entry EXCEPT !.envelope_status = HAS]
            ELSE entry
  IN IF e1.envelope_status = HAS
     THEN [e1 EXCEPT !.player_status = [p \in DOMAIN @ |-> NOT_HAS]]
     ELSE e1

\* one iteration of the for loop of _check_deductions on one entry
DeduceEntry(entry) ==
  LET all_not_has == \A p \in DOMAIN entry.player_status :
                        entry.player_status[p] = NOT_HAS
      e1 == IF entry.envelope_status = UNKNOWN /\ all_not_has
            THEN [entry EXCEPT !.envelope_status = HAS]
            ELSE entry
  IN IF e1.envelope_status = HAS
     THEN [e1 EXCEPT !.player_status = [p \in DOMAIN @ |-> NOT_HAS]]
     ELSE e1

\* while changed: one pass over all entries
RECURSIVE check_deductions(_)
check_deductions(entries) ==
  LET pass == [c \in DOMAIN entries |-> DeduceEntry(entries[c])] IN
  IF pass = entries THEN entries ELSE check_deductions(pass)

\* player_name.upper() == "ENVELOPE", for the spellings callers use
UpperIsEnvelope(player_name) ==
  player_name \in {"ENVELOPE", "Envelope", "envelope"}

\* variant: only the owner's cell is written
marked_entry_owner_only(entry, player_name) ==
  IF player_name \in DOMAIN entry.player_status
  THEN [entry EXCEPT !.player_status[player_name] = HAS]
  ELSE [entry EXCEPT !.envelope_status = HAS]

\* mark_card, the assignments to the entry of the card before the deductions
marked_entry(entry, player_name) ==
  [entry EXCEPT
     !.player_status =
        [p \in DOMAIN @ |-> IF p = player_name THEN HAS ELSE NOT_HAS],
     !.envelope_status =
        IF player_name # "ENVELOPE" THEN NOT_HAS
        ELSE HAS]

\* DetectiveNotebook.mark_card: the notebook it leaves and whether it succeeded
mark_card(nb, card_name, player_name) ==
  IF card_name \notin DOMAIN nb.entries THEN [nb |-> nb, ok |-> FALSE]
  ELSE IF player_name \notin DOMAIN nb.entries[card_name].player_status
          /\ ~UpperIsEnvelope(player_name)
       THEN [nb |-> nb, ok |-> FALSE]
  ELSE [nb |-> [nb EXCEPT !.entries =
                  check_deductions([nb.entries EXCEPT
                     ![card_name] = marked_entry(@, player_name)])],
        ok |-> TRUE]

\* variant: only the players' columns are looked at
validate_accusation_by_players(nb, suspect, weapon, room) ==
  \A card_name \in {suspect, weapon, room} :
     card_name \in DOMAIN nb.entries =>
        \A p \in DOMAIN nb.entries[card_name].player_status :
           nb.entries[card_name].player_status[p] # HAS

\* validate_accusation(...)["valid"]: no warning for any of the three cards
validate_accusation(nb, suspect, weapon, room) ==
  \A card_name \in {suspect, weapon, room} :
     card_name \in DOMAIN nb.entries =>
        /\ \A p \in DOMAIN nb.entries[card_name].player_status :
              nb.entries[card_name].player_status[p] # HAS
        /\ nb.entries[card_name].envelope_status # NOT_HAS

\* update_all_notebooks_card_shown: mark_card on every notebook that exists
update_all_notebooks_card_shown(nbs, card_name, card_holder) ==
  [n \in DOMAIN nbs |-> mark_card(nbs[n], card_name, card_holder).nb]

\* get_notebook: the notebook storage after the call
get_notebook(nbs, player_name) ==
  IF player_name \in DOMAIN nbs THEN nbs
  ELSE [n \in DOMAIN nbs \cup {player_name} |->
          IF n = player_name
          THEN NewNotebook(player_name, DEFAULT_NOTEBOOK_PLAYERS)
          ELSE nbs[n]]

\* get_notebook(player_name, all_players): the storage after the call
open_notebook(nbs, player_name, all_players) ==
  IF player_name \in DOMAIN nbs THEN nbs
  ELSE [n \in DOMAIN nbs \cup {player_name} |->
          IF n = player_name
          THEN NewNotebook(player_name, all_players)
          ELSE nbs[n]]

\* DetectiveNotebook.mark_not_has: the notebook it leaves and whether it succeeded
mark_not_has(nb, card_name, player_name) ==
  IF card_name \notin DOMAIN nb.entries THEN [nb |-> nb, ok |-> FALSE]
  ELSE IF player_name \notin DOMAIN nb.entries[card_name].player_status
       THEN [nb |-> nb, ok |-> FALSE]
  ELSE [nb |-> [nb EXCEPT !.entries =
                  check_deductions([nb.entries EXCEPT
                     ![card_name].player_status[player_name] = NOT_HAS])],
        ok |-> TRUE]

\* DetectiveNotebook.record_my_cards: mark_card(card, owner_name) for each card
RECURSIVE record_my_cards(_, _)
record_my_cards(nb, my_cards) ==
  IF my_cards = <<>> THEN nb
  ELSE record_my_cards(mark_card(nb, Head(my_cards), nb.owner_name).nb, Tail(my_cards))

\* record_suggestion, body of the loops over players_who_passed and the cards
NotePass(nb, player, card) ==
  IF /\ player \in DOMAIN nb.entries[card].player_status
     /\ nb.entries[card].player_status[player] = UNKNOWN
  THEN mark_not_has(nb, card, player).nb
  ELSE nb

\* record_suggestion, the loops: pair k of (player, card), players outermost
RECURSIVE NotePasses(_, _, _, _)
NotePasses(nb, players_who_passed, cards, k) ==
  IF k > Len(players_who_passed) * Len(cards) THEN nb
  ELSE NotePasses(NotePass(nb, players_who_passed[((k - 1) \div Len(cards)) + 1],
                           cards[((k - 1) % Len(cards)) + 1]),
                  players_who_passed, cards, k + 1)

\* record_suggestion, "if card_shown and disprover"
NoteShown(nb, disprover, card_shown) ==
  IF card_shown # None /\ disprover # None
  THEN mark_card(nb, card_shown, disprover).nb
  ELSE nb

\* DetectiveNotebook.record_suggestion: the notebook it leaves
record_suggestion(nb, suspect, weapon, room, disprover, card_shown, players_who_passed) ==
  [NotePasses(NoteShown(nb, disprover, card_shown), players_who_passed,
              <<suspect, weapon, room>>, 1)
     EXCEPT !.entries = check_deductions(@)]

\* number of passes of the "while changed" loop of _check_deductions, the
\* last one changing nothing, counted up to limit
RECURSIVE deduction_passes(_, _, _)
deduction_passes(entries, n, limit) ==
  IF n >= limit THEN limit
  ELSE IF [c \in DOMAIN entries |-> DeduceEntry(entries[c])] = entries THEN n + 1
  ELSE deduction_passes([c \in DOMAIN entries |-> DeduceEntry(entries[c])], n + 1, limit)

\* any(s == CardStatus.HAS for s in entry.player_status.values())
held_by_player(entry) ==
  \E p \in DOMAIN entry.player_status : entry.player_status[p] = HAS

\* positions in the grid (insertion order of _init_cards) of the cards of a type
CardsOfType(card_type) ==
  {k \in 1..Len(AllCards) : AllCards[k].card_type = card_type}

\* confirmed[card_type] after the loop over the entries: the last card of the
\* type whose envelope status is HAS, or None
confirmed_card(nb, card_type) ==
  IF \E k \in CardsOfType(card_type) : nb.entries[AllCards[k].name].envelope_status = HAS
  THEN AllCards[CHOOSE k \in CardsOfType(card_type) :
                  /\ nb.entries[AllCards[k].name].envelope_status = HAS
                  /\ \A j \in CardsOfType(card_type) :
                        nb.entries[AllCards[j].name].envelope_status = HAS => j <= k].name
  ELSE None

\* possible[card_type] after the loop over the entries, as grid positions
possible_cards(nb, card_type) ==
  {k \in CardsOfType(card_type) :
     /\ nb.entries[AllCards[k].name].envelope_status # HAS
     /\ nb.entries[AllCards[k].name].envelope_status # NOT_HAS
     /\ ~held_by_player(nb.entries[AllCards[k].name])}

\* confirmed[t] or len(possible[t]) == 1
narrowed(confirmed, possible) == confirmed # None \/ Cardinality(possible) = 1

\* confirmed[t] or possible[t][0]
final_card(confirmed, possible) ==
  IF confirmed # None THEN confirmed
  ELSE AllCards[CHOOSE k \in possible : \A j \in possible : k <= j].name

\* variant: the room category is not looked at
RecommendedIgnoringRoom(cs, ps, cw, pw, cr, pr) ==
  IF narrowed(cs, ps) /\ narrowed(cw, pw)
  THEN [can_accuse |-> TRUE, suspect |-> final_card(cs, ps),
        weapon |-> final_card(cw, pw), room |-> final_card(cr, pr)]
  ELSE [can_accuse |-> FALSE, suspect |-> None, weapon |-> None, room |-> None]

\* the dictionary get_accusation_recommendation returns, from confirmed and possible
Recommended(cs, ps, cw, pw, cr, pr) ==
  IF narrowed(cs, ps) /\ narrowed(cw, pw) /\ narrowed(cr, pr)
  THEN [can_accuse |-> TRUE, suspect |-> final_card(cs, ps),
        weapon |-> final_card(cw, pw), room |-> final_card(cr, pr)]
  ELSE [can_accuse |-> FALSE, suspect |-> None, weapon |-> None, room |-> None]

\* DetectiveNotebook.get_accusation_recommendation
get_accusation_recommendation(nb) ==
  Recommended(confirmed_card(nb, "suspect"), possible_cards(nb, "suspect"),
              confirmed_card(nb, "weapon"), possible_cards(nb, "weapon"),
              confirmed_card(nb, "room"), possible_cards(nb, "room"))

\* the text get_possible_solution returns, from confirmed and possible: whether
\* it says an accusation can be made, and the triple it then names
Announced(cs, ps, cw, pw, cr, pr) ==
  IF /\ (cs # None \/ Cardinality(ps) = 1)
     /\ (cw # None \/ Cardinality(pw) = 1)
     /\ (cr # None \/ Cardinality(pr) = 1)
  THEN [can_accuse |-> TRUE,
        suspect |-> IF cs # None THEN cs ELSE final_card(cs, ps),
        weapon |-> IF cw # None THEN cw ELSE final_card(cw, pw),
        room |-> IF cr # None THEN cr ELSE final_card(cr, pr)]
  ELSE [can_accuse |-> FALSE, suspect |-> None, weapon |-> None, room |-> None]

\* DetectiveNotebook.get_possible_solution
get_possible_solution(nb) ==
  Announced(confirmed_card(nb, "suspect"), possible_cards(nb, "suspect"),
            confirmed_card(nb, "weapon"), possible_cards(nb, "weapon"),
            confirmed_card(nb, "room"), possible_cards(nb, "room"))

\* the warnings validate_accusation appends for one card: one if a player
\* holds it, one if the envelope is marked as not having it
card_warnings(nb, card_name) ==
  IF card_name \notin DOMAIN nb.entries THEN 0
  ELSE (IF held_by_player(nb.entries[card_name]) THEN 1 ELSE 0)
       + (IF nb.entries[card_name].envelope_status = NOT_HAS THEN 1 ELSE 0)

\* len(warnings) of validate_accusation
accusation_warnings(nb, suspect, weapon, room) ==
  card_warnings(nb, suspect) + card_warnings(nb, weapon) + card_warnings(nb, room)

(***************************************************************************)
(* retry_with_backoff (main.py). func is the sequence of what the function  *)
(* does at each call: "raises", or returns "none" (None), "empty_raw" (an   *)
(* object whose raw is empty), "raw" (an object with a raw) or "plain" (an  *)
(* object without a raw attribute).                                        *)
(***************************************************************************)
Outcomes == {"raises", "none", "empty_raw", "raw", "plain"}

\* variant: only None counts as an empty response
empty_response_when_none(result) == result = "none"

\* result is None or (hasattr(result, 'raw') and not result.raw)
empty_response(result) == result = "none" \/ result = "empty_raw"

\* the for loop from iteration attempt on: what is returned or raised (the
\* result or exception of which attempt), the calls made, the delays slept
RECURSIVE retry_loop(_, _, _, _, _)
retry_loop(func, max_retries, base_delay, attempt, slept) ==
  IF attempt > max_retries
  THEN [returned |-> FALSE, value |-> <<None, attempt - 1>>,
        calls |-> attempt, slept |-> slept]
  ELSE IF func[attempt + 1] # "raises" /\ ~empty_response(func[attempt + 1])
  THEN [returned |-> TRUE, value |-> <<func[attempt + 1], attempt>>,
        calls |-> attempt + 1, slept |-> slept]
  ELSE IF attempt < max_retries
  THEN retry_loop(func, max_retries, base_delay, attempt + 1,
                  Append(slept, base_delay * (2 ^ attempt)))
  ELSE [returned |-> FALSE,
        value |-> <<IF func[attempt + 1] = "raises" THEN "Exception" ELSE "ValueError",
                    attempt>>,
        calls |-> attempt + 1, slept |-> slept]

retry_with_backoff(func, max_retries, base_delay) ==
  retry_loop(func, max_retries, base_delay, 0, <<>>)

NoRetry ==
  [func |-> <<>>, max_retries |-> 0, base_delay |-> 0,
   outcome |-> [returned |-> FALSE, value |-> <<None, 0>>, calls |-> 0, slept |-> <<>>]]

(***************************************************************************)
(* State: the fields of the GameState singleton, the notebook storage,     *)
(* the result of the last tool call, and a history record per player.      *)
(***************************************************************************)
VARIABLES
  players,               \* GameState.players (seat order; index 1 is seat 0)
  solution,              \* GameState.solution
  current_player_index,  \* GameState.current_player_index (0-based)
  turn_number,           \* GameState.turn_number
  game_over,             \* GameState.game_over
  winner,                \* GameState.winner
  suggestion_history,    \* GameState.suggestion_history
  notebooks,             \* notebook._player_notebooks
  last,                  \* the last tool call: operation, caller, arguments, result
  track,                 \* per seat: what actually happened to the player (history)
  calls,                 \* tool calls and turn advances made since setup
  retry                  \* the last call of retry_with_backoff: arguments and outcome

vars == <<players, solution, current_player_index, turn_number, game_over,
          winner, suggestion_history, notebooks, last, track, calls, retry>>

gameVars == <<players, solution, current_player_index, turn_number, game_over,
              winner, suggestion_history>>

NoSolution == [suspect |-> None, weapon |-> None, room |-> None]

Seats == 1..Len(players)

(***************************************************************************)
(* Grid movement (GameState, "GRID-BASED MOVEMENT METHODS").               *)
(***************************************************************************)
\* start_turn(player, dice_total)
start_turn(player, dice_total) ==
  [player EXCEPT
     !.moves_remaining = dice_total,
     !.entered_room_this_turn = FALSE,
     !.visited_this_turn = IF player.position # NoPos THEN {player.position} ELSE {}]

\* variant: nobody is taken to stand in the hallway
get_occupied_positions_none(ps, i) == {}

\* get_occupied_positions(exclude_player = ps[i])
get_occupied_positions(ps, i) ==
  {ps[j].position : j \in {k \in 1..Len(ps) :
       k # i /\ ps[k].position # NoPos /\ ps[k].in_hallway}}

\* the last part of can_move_to_cell, for the cell type found
CanEnterCell(cell) ==
  IF cell.type = "WALL" \/ cell.type = "ROOM"
  THEN [can_move |-> FALSE, room |-> None]
  ELSE IF cell.type = "DOOR" THEN [can_move |-> TRUE, room |-> cell.room]
  ELSE IF cell.type = "HALLWAY" \/ cell.type = "START"
  THEN [can_move |-> TRUE, room |-> None]
  ELSE [can_move |-> FALSE, room |-> None]

\* can_move_to_cell: whether the cell can be stepped on, and the room if a door
can_move_to_cell(player, row, col, occupied) ==
  IF row < 0 \/ row >= BOARD_HEIGHT \/ col < 0 \/ col >= BOARD_WIDTH
  THEN [can_move |-> FALSE, room |-> None]
  ELSE IF <<row, col>> \in player.visited_this_turn
  THEN [can_move |-> FALSE, room |-> None]
  ELSE IF <<row, col>> \in occupied
  THEN [can_move |-> FALSE, room |-> None]
  ELSE CanEnterCell(get_cell_type(row, col))

Abs(x) == IF x < 0 THEN -x ELSE x

\* variant: entering through a door keeps what is left of the budget
EnterThroughDoorKeepingBudget(player, room) ==
  [player EXCEPT
     !.current_room = room,
     !.in_hallway = FALSE,
     !.position = NoPos,
     !.has_moved_since_suggestion = TRUE,
     !.was_moved_by_suggestion = FALSE,
     !.entered_room_this_turn = TRUE]

\* the player after entering a room through a door (move_player_one_step, "if room:")
EnterThroughDoor(player, room) ==
  [player EXCEPT
     !.current_room = room,
     !.in_hallway = FALSE,
     !.position = NoPos,
     !.moves_remaining = 0,
     !.has_moved_since_suggestion = TRUE,
     !.was_moved_by_suggestion = FALSE,
     !.entered_room_this_turn = TRUE]

\* the player after "Execute the move" of move_player_one_step
StepTo(player, row, col) ==
  [player EXCEPT
     !.position = <<row, col>>,
     !.visited_this_turn = @ \cup {<<row, col>>},
     !.moves_remaining = @ - 1]

\* move_player_one_step once can_move_to_cell has answered c
ExecuteStep(player, row, col, c) ==
  IF ~c.can_move
  THEN [success |-> FALSE, room |-> None, player |-> player]
  ELSE IF c.room # None
  THEN [success |-> TRUE, room |-> c.room,
        player |-> EnterThroughDoor(StepTo(player, row, col), c.room)]
  ELSE [success |-> TRUE, room |-> None, player |-> StepTo(player, row, col)]

\* move_player_one_step: (success, room_entered) and the player it leaves
move_player_one_step(player, row, col, occupied) ==
  IF player.moves_remaining <= 0
  THEN [success |-> FALSE, room |-> None, player |-> player]
  ELSE IF player.position = NoPos
  THEN [success |-> FALSE, room |-> None, player |-> player]
  ELSE IF Abs(row - player.position[1]) + Abs(col - player.position[2]) # 1
  THEN [success |-> FALSE, room |-> None, player |-> player]
  ELSE ExecuteStep(player, row, col, can_move_to_cell(player, row, col, occupied))

\* get_room_doors(room): the door positions DOOR_POSITIONS lists, in order
get_room_doors(room) ==
  LET idx == {i \in 1..Len(DOOR_POSITIONS) : DOOR_POSITIONS[i].room = room}
      RECURSIVE Collect(_)
      Collect(i) ==
        IF i > Len(DOOR_POSITIONS) THEN <<>>
        ELSE IF i \in idx THEN <<DOOR_POSITIONS[i].pos>> \o Collect(i + 1)
             ELSE Collect(i + 1)
  IN Collect(1)

\* whether get_cell_type says the cell is a door of that room
IsDoorOf(cell, room) == cell.type = "DOOR" /\ cell.room = room

\* exit_room_to_hallway(player, door_position)
exit_room_to_hallway(player, door_position, occupied) ==
  IF player.current_room = None THEN [success |-> FALSE, player |-> player]
  ELSE IF ~IsDoorOf(get_cell_type(door_position[1], door_position[2]),
                    player.current_room)
       THEN [success |-> FALSE, player |-> player]
       ELSE IF door_position \in occupied
       THEN [success |-> FALSE, player |-> player]
       ELSE [success |-> TRUE,
             player |-> [player EXCEPT
                !.current_room = None,
                !.in_hallway = TRUE,
                !.position = door_position,
                !.visited_this_turn = @ \cup {door_position},
                !.moves_remaining = IF @ > 0 THEN @ - 1 ELSE @,
                !.has_moved_since_suggestion = TRUE,
                !.was_moved_by_suggestion = FALSE]]

\* use_secret_passage(player)
use_secret_passage(player) ==
  IF player.current_room = None THEN [success |-> FALSE, player |-> player]
  ELSE IF SECRET_PASSAGES[player.current_room] = None
  THEN [success |-> FALSE, player |-> player]
  ELSE [success |-> TRUE,
        player |-> [player EXCEPT
           !.current_room = SECRET_PASSAGES[player.current_room],
           !.in_hallway = FALSE,
           !.position = NoPos,
           !.moves_remaining = 0,
           !.has_moved_since_suggestion = TRUE,
           !.was_moved_by_suggestion = FALSE,
           !.entered_room_this_turn = TRUE]]

\* the body of the "for adj_row, adj_col in get_adjacent_cells(...)" loop of
\* get_reachable_rooms, for the neighbour next_pos (of type cell) of node
VisitCell(player, occupied, node, next_pos, cell, st) ==
  IF next_pos \in st.visited \/ next_pos \in player.visited_this_turn THEN st
  ELSE IF next_pos \in occupied THEN st
  ELSE IF cell.type = "DOOR"
  THEN [st EXCEPT
          !.reachable_rooms = Append(@, [room |-> cell.room,
                                         distance |-> node.dist + 1,
                                         path |-> Append(node.path, next_pos)]),
          !.visited = @ \cup {next_pos}]
  ELSE IF cell.type \in {"HALLWAY", "START"}
  THEN [st EXCEPT
          !.visited = @ \cup {next_pos},
          !.queue = Append(@, [pos |-> next_pos, dist |-> node.dist + 1,
                               path |-> Append(node.path, next_pos)])]
  ELSE st

VisitNeighbour(player, occupied, node, next_pos, st) ==
  VisitCell(player, occupied, node, next_pos,
            get_cell_type(next_pos[1], next_pos[2]), st)

\* one iteration of the "while queue:" loop for the dequeued node
VisitNode(player, occupied, node, adjacent, popped) ==
  IF node.dist >= player.moves_remaining THEN popped
  ELSE VisitNeighbour(player, occupied, node, adjacent[4],
         VisitNeighbour(player, occupied, node, adjacent[3],
           VisitNeighbour(player, occupied, node, adjacent[2],
             VisitNeighbour(player, occupied, node, adjacent[1], popped))))

\* the "while queue:" loop of get_reachable_rooms
RECURSIVE BfsLoop(_, _, _)
BfsLoop(player, occupied, st) ==
  IF st.queue = <<>> THEN st.reachable_rooms
  ELSE BfsLoop(player, occupied,
         VisitNode(player, occupied, Head(st.queue),
                   get_adjacent_cells(Head(st.queue).pos[1], Head(st.queue).pos[2]),
                   [st EXCEPT !.queue = Tail(@)]))

\* get_reachable_rooms(player): list of (room, distance, path) in BFS order
get_reachable_rooms(player, occupied) ==
  IF player.position = NoPos \/ player.moves_remaining <= 0 THEN <<>>
  ELSE BfsLoop(player, occupied,
         [queue |-> <<[pos |-> player.position, dist |-> 0,
                       path |-> <<player.position>>]>>,
          visited |-> {player.position},
          reachable_rooms |-> <<>>])

\* index of the first entry of the list whose room is target_room, or 0
FirstReachable(reachable, target_room) ==
  IF \E i \in 1..Len(reachable) : reachable[i].room = target_room
  THEN CHOOSE i \in 1..Len(reachable) :
           /\ reachable[i].room = target_room
           /\ \A j \in 1..(i - 1) : reachable[j].room # target_room
  ELSE 0

\* the first door of the list that no other hallway player stands on, or NoPos
FirstUnblockedDoor(doors, occupied) ==
  IF \E i \in 1..Len(doors) : doors[i] \notin occupied
  THEN doors[CHOOSE i \in 1..Len(doors) :
           /\ doors[i] \notin occupied
           /\ \A j \in 1..(i - 1) : doors[j] \in occupied]
  ELSE NoPos

\* the "for i, (row, col) in enumerate(path[1:], 1)" loop of move_to_room
RECURSIVE WalkPath(_, _, _, _)
AfterStep(step, path, i, occupied) ==
  IF ~step.success THEN [success |-> FALSE, room |-> None, player |-> step.player]
  ELSE IF step.room # None THEN step
  ELSE WalkPath(step.player, path, i + 1, occupied)

WalkPath(player, path, i, occupied) ==
  IF i > Len(path) THEN [success |-> TRUE, room |-> None, player |-> player]
  ELSE AfterStep(move_player_one_step(player, path[i][1], path[i][2], occupied),
                 path, i, occupied)

\* what move_to_room returns after walking the path
WalkResult(walk) ==
  IF ~walk.success
  THEN [ok |-> FALSE, reason |-> "blocked", player |-> walk.player]
  ELSE [ok |-> TRUE, reason |-> "moved", player |-> walk.player]

\* move_to_room from "room, distance, path = target_reachable" on
WalkToTarget(player, reachable, target_reachable, occupied) ==
  IF target_reachable = 0
  THEN [ok |-> FALSE, reason |-> "unreachable", player |-> player]
  ELSE WalkResult(WalkPath(player, reachable[target_reachable].path, 2, occupied))

\* move_to_room from "reachable = game_state.get_reachable_rooms(player)" on
MoveWithin(player, reachable, target_room, occupied) ==
  WalkToTarget(player, reachable, FirstReachable(reachable, target_room), occupied)

\* the hallway part of move_to_room ("Now player is in hallway")
MoveFromHallway(player, target_room, occupied) ==
  IF player.moves_remaining <= 0
  THEN [ok |-> FALSE, reason |-> "no_moves", player |-> player]
  ELSE MoveWithin(player, get_reachable_rooms(player, occupied), target_room, occupied)

\* move_to_room after exit_room_to_hallway has answered
AfterExit(player, exit, target_room, occupied) ==
  IF ~exit.success
  THEN [ok |-> FALSE, reason |-> "could_not_exit", player |-> player]
  ELSE MoveFromHallway(exit.player, target_room, occupied)

\* move_to_room from "Exit through the door" on
ExitThrough(player, best_door, target_room, occupied) ==
  IF best_door = NoPos
  THEN [ok |-> FALSE, reason |-> "exits_blocked", player |-> player]
  ELSE AfterExit(player, exit_room_to_hallway(player, best_door, occupied),
                 target_room, occupied)

\* the "Need to exit room first" part of move_to_room
ExitRoom(player, doors, target_room, occupied) ==
  IF doors = <<>>
  THEN [ok |-> FALSE, reason |-> "no_exit", player |-> player]
  ELSE ExitThrough(player, FirstUnblockedDoor(doors, occupied), target_room, occupied)

\* what move_to_room returns after use_secret_passage
PassageResult(passage) ==
  [ok |-> passage.success, reason |-> "passage", player |-> passage.player]

\* move_to_room for the player found and the positions other players occupy
MoveFrom(player, target_room, occupied) ==
  IF player.current_room # None /\ ~player.in_hallway
  THEN IF SECRET_PASSAGES[player.current_room] = target_room
       THEN PassageResult(use_secret_passage(player))
       ELSE ExitRoom(player, get_room_doors(player.current_room), target_room, occupied)
  ELSE MoveFromHallway(player, target_room, occupied)

\* move_to_room(player_name, room_name) for a known player and a valid room
move_to_room(ps, i, target_room) ==
  MoveFrom(ps[i], target_room, get_occupied_positions(ps, i))

(***************************************************************************)
(* Suggestions and accusations (GameState).                                *)
(***************************************************************************)
\* seat (1-based) of the first player with that name, or 0: get_player_by_name
get_player_by_name(ps, name) ==
  IF \E i \in 1..Len(ps) : ps[i].name = name
  THEN CHOOSE i \in 1..Len(ps) :
         ps[i].name = name /\ \A j \in 1..(i - 1) : ps[j].name # name
  ELSE 0

\* seat of the first player whose character is suspect_name, or 0
SuspectSeat(ps, suspect_name) ==
  IF \E i \in 1..Len(ps) : ps[i].character = suspect_name
  THEN CHOOSE i \in 1..Len(ps) :
         ps[i].character = suspect_name
         /\ \A j \in 1..(i - 1) : ps[j].character # suspect_name
  ELSE 0

\* variant: the token is moved but the player is not marked as pulled
move_suspect_to_room_unmarked(ps, suspect_name, room) ==
  LET k == SuspectSeat(ps, suspect_name) IN
  IF k = 0 THEN ps
  ELSE [ps EXCEPT ![k] = [@ EXCEPT
          !.current_room = room,
          !.has_moved_since_suggestion = TRUE,
          !.entered_room_this_turn = TRUE,
          !.in_hallway = FALSE]]

\* move_suspect_to_room(suspect_name, room)
move_suspect_to_room(ps, suspect_name, room) ==
  LET k == SuspectSeat(ps, suspect_name) IN
  IF k = 0 THEN ps
  ELSE [ps EXCEPT ![k] = [@ EXCEPT
          !.current_room = room,
          !.was_moved_by_suggestion = TRUE,
          !.has_moved_since_suggestion = TRUE,
          !.entered_room_this_turn = TRUE,
          !.in_hallway = FALSE]]

\* str.lower() makes these spellings equal to an enum value; any other name
\* an agent passes is either an enum value or matches none
OtherSpellings ==
  [name \in {"miss scarlet", "KNIFE", "kitchen"} |->
     CASE name = "miss scarlet" -> "Miss Scarlet"
       [] name = "KNIFE" -> "Knife"
       [] name = "kitchen" -> "Kitchen"]

\* "for v in Enum: if v.value.lower() == name.lower()": the value found, or None
valid_name(values, name) ==
  IF name \in Range(values) THEN name
  ELSE IF name \in DOMAIN OtherSpellings /\ OtherSpellings[name] \in Range(values)
  THEN OtherSpellings[name]
  ELSE None

\* the checks of make_suggestion that raise ValueError; "ok" when none does
suggestion_error(player) ==
  IF player.current_room = None THEN "not_in_room"
  ELSE IF ~player.entered_room_this_turn /\ ~player.was_moved_by_suggestion
  THEN "not_entered"
  ELSE IF /\ ~player.has_moved_since_suggestion
          /\ ~player.was_moved_by_suggestion
          /\ player.last_suggestion_room = player.current_room
  THEN "repeated"
  ELSE "ok"

\* variant: the scan goes against the seating order
check_index_backwards(player_index, i, n) == (player_index + n - i) % n

\* seat checked at iteration i of the disproof scan (0-based seats)
check_index(player_index, i, n) == (player_index + i) % n

\* [card for card in other_player.cards if card.name in [suspect, weapon, room]]
matching_cards(player, suspect, weapon, room) ==
  {c \in Range(player.cards) : c.name \in {suspect, weapon, room}}

\* the iteration i (1..n-1) at which the disproof scan breaks, or 0
disproof_stop(ps, player_index, suspect, weapon, room) ==
  LET n == Len(ps)
      holds(i) == matching_cards(ps[check_index(player_index, i, n) + 1],
                                 suspect, weapon, room) # {}
  IN IF \E i \in 1..(n - 1) : holds(i)
     THEN CHOOSE i \in 1..(n - 1) : holds(i) /\ \A j \in 1..(i - 1) : ~holds(j)
     ELSE 0

\* variant: the disprover shows any card of its hand
shown_any_card(other_player, suspect, weapon, room) ==
  {other_player.cards[j].name : j \in 1..Len(other_player.cards)}

\* the cards random.choice(matching_cards) may return for the disprover
shown_choices(other_player, suspect, weapon, room) ==
  {c.name : c \in matching_cards(other_player, suspect, weapon, room)}

\* variant: the room of the accusation is not compared
is_correct_ignoring_room(sol, suspect, weapon, room) ==
  /\ sol.suspect.name = suspect
  /\ sol.weapon.name = weapon

\* is_correct of make_accusation
is_correct(sol, suspect, weapon, room) ==
  /\ sol.suspect.name = suspect
  /\ sol.weapon.name = weapon
  /\ sol.room.name = room

\* the players after "player.is_active = False" of a wrong accusation
eliminate(ps, i) == [ps EXCEPT ![i].is_active = FALSE]

\* variant: eliminated players are counted as active
active_players_with_eliminated(ps) == 1..Len(ps)

\* [p for p in self.players if p.is_active]
active_players(ps) == {i \in 1..Len(ps) : ps[i].is_active}

\* the else branch of make_accusation: the players out after the elimination
Eliminated(out, active, over, win) ==
  IF Cardinality(active) = 1
  THEN [raised |-> FALSE, correct |-> FALSE, players |-> out,
        game_over |-> TRUE, winner |-> out[CHOOSE a \in active : TRUE].name]
  ELSE [raised |-> FALSE, correct |-> FALSE, players |-> out,
        game_over |-> over, winner |-> win]

\* make_accusation after "player.has_accused_this_turn = True"
Judge(accused, i, correct, over, win) ==
  IF correct
  THEN [raised |-> FALSE, correct |-> TRUE, players |-> accused,
        game_over |-> TRUE, winner |-> accused[i].name]
  ELSE Eliminated(eliminate(accused, i), active_players(eliminate(accused, i)),
                  over, win)

\* variant: the accusation is judged before the second one of a turn raises
make_accusation_judged_first(ps, i, sol, suspect, weapon, room, over, win) ==
  [Judge([ps EXCEPT ![i].has_accused_this_turn = TRUE], i,
         is_correct(sol, suspect, weapon, room), over, win)
     EXCEPT !.raised = ps[i].has_accused_this_turn]

\* make_accusation(player, suspect, weapon, room): what it raises or leaves
make_accusation(ps, i, sol, suspect, weapon, room, over, win) ==
  IF ps[i].has_accused_this_turn
  THEN [raised |-> TRUE, correct |-> FALSE, players |-> ps,
        game_over |-> over, winner |-> win]
  ELSE Judge([ps EXCEPT ![i].has_accused_this_turn = TRUE], i,
             is_correct(sol, suspect, weapon, room), over, win)

\* variant: at most one inactive player is skipped
skip_inactive_once(ps, index, attempts) ==
  IF ~ps[index + 1].is_active THEN (index + 1) % Len(ps) ELSE index

\* attempts when the loop of next_turn ends
RECURSIVE skip_attempts(_, _, _)
skip_attempts(ps, index, attempts) ==
  IF ~ps[index + 1].is_active /\ attempts < Len(ps)
  THEN skip_attempts(ps, (index + 1) % Len(ps), attempts + 1)
  ELSE attempts

\* the "while not active and attempts < len(players)" loop of next_turn
RECURSIVE skip_inactive(_, _, _)
skip_inactive(ps, index, attempts) ==
  IF ~ps[index + 1].is_active /\ attempts < Len(ps)
  THEN skip_inactive(ps, (index + 1) % Len(ps), attempts + 1)
  ELSE index

\* get_random_clue(player) is not None: some card is neither solution nor in hand
clue_available(player, sol) ==
  CardNames \ ({sol.suspect.name, sol.weapon.name, sol.room.name}
               \cup {player.cards[h].name : h \in 1..Len(player.cards)}) # {}

\* variant: cards of the player's own hand may be named
get_random_clue_outside_solution(player, sol) ==
  {c \in Range(Suspect) \cup Range(Weapon) \cup Range(Room) :
     c \notin {sol.suspect.name, sol.weapon.name, sol.room.name}}

\* GameState.get_random_clue: the cards random.choice can draw from all_cards
\* (the clue names one of them; None when the set is empty)
get_random_clue(player, sol) ==
  {c \in Range(Suspect) \cup Range(Weapon) \cup Range(Room) :
     /\ c \notin {sol.suspect.name, sol.weapon.name, sol.room.name}
     /\ c \notin {player.cards[h].name : h \in 1..Len(player.cards)}}

(***************************************************************************)
(* History kept beside the program state: for every seat, the room the     *)
(* player entered by its own movement since its last dice roll, the room   *)
(* another player's suggestion pulled it into (until it moves itself), and *)
(* the room of its last suggestion (until it moves itself).                *)
(***************************************************************************)
NewTrack == [entered_room |-> None, pulled_room |-> None, sugg_room |-> None]

TrackRoll(t) == [t EXCEPT !.entered_room = None]

TrackMove(t, before, after, ok) ==
  IF ok /\ after.current_room # None
  THEN [entered_room |-> after.current_room, pulled_room |-> None, sugg_room |-> None]
  ELSE IF before.current_room # None /\ after.current_room # before.current_room
  THEN [t EXCEPT !.pulled_room = None, !.sugg_room = None]
  ELSE t

TrackSuggestion(tr, i, k, room) ==
  [j \in DOMAIN tr |->
     LET t1 == IF j = k /\ k # i THEN [tr[j] EXCEPT !.pulled_room = room] ELSE tr[j]
     IN IF j = i THEN [t1 EXCEPT !.sugg_room = room] ELSE t1]

\* what a tool call returned: ok is FALSE for an "Error: ..." string or an
\* exception, reason names the branch that produced the result
Result(op, who, ok, reason) ==
  [op |-> op, who |-> who, ok |-> ok, reason |-> reason]

(***************************************************************************)
(* Initial state: a fresh GameState() and no notebook.                     *)
(***************************************************************************)
Init ==
  /\ players = <<>>
  /\ solution = NoSolution
  /\ current_player_index = 0
  /\ turn_number = 1
  /\ game_over = FALSE
  /\ winner = None
  /\ suggestion_history = <<>>
  /\ notebooks = <<>>
  /\ last = Result("none", None, TRUE, "none")
  /\ track = <<>>
  /\ calls = 0
  /\ retry = NoRetry

(***************************************************************************)
(* run_game: setup_game for the first n configured players.                *)
(***************************************************************************)
Setup(n, sol, shift, order) ==
  /\ players = <<>>
  /\ players' = setup_game(SubSeq(PLAYER_CONFIGS, 1, n), sol, shift, order)
  /\ solution' = sol
  /\ track' = [i \in 1..n |-> NewTrack]
  /\ last' = Result("setup", None, TRUE, "none")
  /\ UNCHANGED <<current_player_index, turn_number, game_over, winner,
                 suggestion_history, notebooks>>

\* the names the agents pass to the tools: the players of the game
Callers == {players[i].name : i \in 1..Len(players)}

Fail(op, who, reason) ==
  /\ last' = Result(op, who, FALSE, reason)
  /\ UNCHANGED <<gameVars, notebooks, track>>

(***************************************************************************)
(* Tool "Roll Dice".                                                       *)
(***************************************************************************)
RollDice(player_name, die1, die2) ==
  LET i == get_player_by_name(players, player_name)
      magnifying_count == (IF die1 = 1 THEN 1 ELSE 0) + (IF die2 = 1 THEN 1 ELSE 0)
  IN /\ players # <<>>
     /\ IF i = 0 THEN Fail("roll_dice", player_name, "unknown_player")
        ELSE /\ players' = [players EXCEPT ![i] = start_turn(@, die1 + die2)]
             /\ track' = [track EXCEPT ![i] = TrackRoll(@)]
             \* unpacking the clue string into (clue_text, holder_name) raises
             /\ last' = IF magnifying_count > 0 /\ clue_available(players[i], solution)
                        THEN Result("roll_dice", player_name, FALSE, "raised")
                        ELSE Result("roll_dice", player_name, TRUE, "rolled")
             /\ UNCHANGED <<solution, current_player_index, turn_number, game_over,
                            winner, suggestion_history, notebooks>>

(***************************************************************************)
(* Tool "Move To Room".                                                    *)
(***************************************************************************)
\* the state the tool leaves when move_to_room has produced res
Moved(player_name, i, res) ==
  /\ players' = [players EXCEPT ![i] = res.player]
  /\ track' = [track EXCEPT ![i] = TrackMove(@, players[i], res.player, res.ok)]
  /\ last' = Result("move_to_room", player_name, res.ok, res.reason)
  /\ UNCHANGED <<solution, current_player_index, turn_number, game_over,
                 winner, suggestion_history, notebooks>>

MoveToRoom(player_name, target_room) ==
  LET i == get_player_by_name(players, player_name) IN
  /\ players # <<>>
  /\ IF i = 0 THEN Fail("move_to_room", player_name, "unknown_player")
     ELSE Moved(player_name, i, move_to_room(players, i, target_room))

\* GameState.exit_room_to_hallway(player, door_position), called on its own
ExitRoomToHallway(player_name, door_position) ==
  LET i == get_player_by_name(players, player_name) IN
  /\ i # 0
  /\ LET res == exit_room_to_hallway(players[i], door_position,
                                      get_occupied_positions(players, i))
     IN /\ players' = [players EXCEPT ![i] = res.player]
        /\ track' = [track EXCEPT ![i] = TrackMove(@, players[i], res.player, FALSE)]
        /\ last' = Result("exit_room_to_hallway", player_name, res.success, "none")
  /\ UNCHANGED <<solution, current_player_index, turn_number, game_over,
                 winner, suggestion_history, notebooks>>

(***************************************************************************)
(* Tool "Make Suggestion" with GameState.make_suggestion.                  *)
(***************************************************************************)
Suggestion(suggester, suspect, weapon, room, disproven_by, card_shown) ==
  [suggester |-> suggester, suspect |-> suspect, weapon |-> weapon,
   room |-> room, disproven_by |-> disproven_by, card_shown |-> card_shown]

\* the players after move_suspect_to_room and "Track suggestion for repeated
\* suggestion rule" of make_suggestion
NotedSuggestion(ps, i, suspect) ==
  [move_suspect_to_room(ps, suspect, ps[i].current_room) EXCEPT
     ![i].last_suggestion_room = ps[i].current_room,
     ![i].has_moved_since_suggestion = FALSE]

\* seat (1-based) at which the disproof scan stopped, or 0
OtherSeat(ps, player_index, stop) ==
  IF stop = 0 THEN 0 ELSE check_index(player_index, stop, Len(ps)) + 1

\* the suggestion is appended to the history; a card shown goes to the notebooks
Recorded(player_name, i, suspect, weapon, room, nbs, noted, disproven_by, card_shown) ==
  /\ suggestion_history' = Append(suggestion_history,
        Suggestion(player_name, suspect, weapon, room, disproven_by, card_shown))
  /\ notebooks' = IF disproven_by = None THEN nbs
                  ELSE update_all_notebooks_card_shown(nbs, card_shown, disproven_by)
  /\ players' = noted
  /\ track' = TrackSuggestion(track, i, SuspectSeat(players, suspect), room)
  /\ last' = Result("make_suggestion", player_name, TRUE, "suggested")
  /\ UNCHANGED <<solution, current_player_index, turn_number, game_over, winner>>

\* the disprover at seat other shows any one of its matching cards
Disproved(player_name, i, suspect, weapon, room, nbs, noted, other) ==
  IF other = 0
  THEN Recorded(player_name, i, suspect, weapon, room, nbs, noted, None, None)
  ELSE \E shown \in shown_choices(noted[other], suspect, weapon, room) :
          Recorded(player_name, i, suspect, weapon, room, nbs, noted,
                   noted[other].name, shown)

\* the disproof scan, clockwise from the suggester
Scanned(player_name, i, suspect, weapon, room, nbs, noted) ==
  Disproved(player_name, i, suspect, weapon, room, nbs, noted,
            OtherSeat(noted, i - 1, disproof_stop(noted, i - 1, suspect, weapon, room)))

\* the part of the tool after the notebook lookup, once no check has raised
SuggestionAccepted(player_name, i, suspect, weapon, nbs) ==
  Scanned(player_name, i, suspect, weapon, players[i].current_room, nbs,
          NotedSuggestion(players, i, suspect))

\* the tool from the notebook lookup on, for the notebook storage it leaves
SuggestionChecked(player_name, i, suspect, weapon, nbs, error) ==
  IF error # "ok"
  THEN /\ last' = Result("make_suggestion", player_name, FALSE, error)
       /\ notebooks' = nbs
       /\ UNCHANGED <<gameVars, track>>
  ELSE SuggestionAccepted(player_name, i, suspect, weapon, nbs)

MakeSuggestion(player_name, suspect, weapon) ==
  LET i == get_player_by_name(players, player_name) IN
  /\ players # <<>>
  /\ IF i = 0
     THEN Fail("make_suggestion", player_name, "unknown_player")
     ELSE IF players[i].current_room = None
     THEN Fail("make_suggestion", player_name, "not_in_room")
     ELSE IF ~players[i].entered_room_this_turn /\ ~players[i].was_moved_by_suggestion
     THEN Fail("make_suggestion", player_name, "not_entered")
     ELSE IF valid_name(Suspect, suspect) = None
     THEN Fail("make_suggestion", player_name, "invalid_suspect")
     ELSE IF valid_name(Weapon, weapon) = None
     THEN Fail("make_suggestion", player_name, "invalid_weapon")
     ELSE SuggestionChecked(player_name, i, valid_name(Suspect, suspect),
                            valid_name(Weapon, weapon),
                            get_notebook(notebooks, player_name),
                            suggestion_error(players[i]))

(***************************************************************************)
(* Tool "Make Accusation" with GameState.make_accusation.                  *)
(***************************************************************************)
\* variant: the tool lets eliminated players through
may_accuse_when_eliminated(player) == TRUE

\* "if not player.is_active: return Error" of the tool
may_accuse(player) == player.is_active

\* the state the tool leaves when GameState.make_accusation has produced res
Accused(player_name, nbs, res) ==
  /\ players' = res.players
  /\ game_over' = res.game_over
  /\ winner' = res.winner
  /\ notebooks' = nbs
  /\ last' = IF res.raised
             THEN Result("make_accusation", player_name, FALSE, "already_accused")
             ELSE Result("make_accusation", player_name, TRUE,
                         IF res.correct THEN "correct" ELSE "wrong")
  /\ UNCHANGED <<solution, current_player_index, turn_number,
                 suggestion_history, track>>

\* the tool from "Check the notebook to validate the accusation" on
AccusationChecked(player_name, i, suspect, weapon, room, nbs) ==
  IF ~validate_accusation(nbs[player_name], suspect, weapon, room)
  THEN /\ last' = Result("make_accusation", player_name, FALSE, "blocked")
       /\ notebooks' = nbs
       /\ UNCHANGED <<gameVars, track>>
  ELSE Accused(player_name, nbs,
               make_accusation(players, i, solution, suspect, weapon, room,
                               game_over, winner))

MakeAccusation(player_name, suspect, weapon, room) ==
  LET i == get_player_by_name(players, player_name) IN
  /\ players # <<>>
  /\ IF i = 0
     THEN Fail("make_accusation", player_name, "unknown_player")
     ELSE IF ~may_accuse(players[i])
     THEN Fail("make_accusation", player_name, "eliminated")
     ELSE IF None \in {valid_name(Suspect, suspect), valid_name(Weapon, weapon),
                        valid_name(Room, room)}
     THEN Fail("make_accusation", player_name, "invalid_name")
     ELSE AccusationChecked(player_name, i, valid_name(Suspect, suspect),
                            valid_name(Weapon, weapon), valid_name(Room, room),
                            get_notebook(notebooks, player_name))

(***************************************************************************)
(* run_game: next_turn after a player's turn, while the game is not over.  *)
(***************************************************************************)
\* variant: the turn advances without clearing any accusation flag
next_turn_keeping_flags(ps, index) ==
  [players |-> ps,
   current_player_index |-> skip_inactive(ps, (index + 1) % Len(ps), 0)]

next_turn(ps, index) ==
  LET cleared == [ps EXCEPT ![index + 1].has_accused_this_turn = FALSE]
      new_index == skip_inactive(cleared, (index + 1) % Len(ps), 0)
  IN [players |-> [cleared EXCEPT ![new_index + 1].has_accused_this_turn = FALSE],
      current_player_index |-> new_index]

\* GameState.next_turn(), whenever it is called
AdvanceTurn ==
  /\ players # <<>>
  /\ LET res == next_turn(players, current_player_index) IN
       /\ players' = res.players
       /\ current_player_index' = res.current_player_index
  /\ turn_number' = turn_number + 1
  /\ last' = Result("next_turn", None, TRUE, "none")
  /\ UNCHANGED <<solution, game_over, winner, suggestion_history, notebooks, track>>

\* next_turn as the game loop calls it: while the game is not over
NextTurn == ~game_over /\ AdvanceTurn

(***************************************************************************)
(* reset_game_state: a new GameState() replaces the global instance; the   *)
(* notebook storage is another global and is not touched.                  *)
(* reset_all_notebooks: the notebook storage becomes empty.                *)
(***************************************************************************)
ResetGameState ==
  /\ players' = <<>>
  /\ solution' = NoSolution
  /\ current_player_index' = 0
  /\ turn_number' = 1
  /\ game_over' = FALSE
  /\ winner' = None
  /\ suggestion_history' = <<>>
  /\ track' = <<>>
  /\ last' = Result("reset_game_state", None, TRUE, "none")
  /\ UNCHANGED notebooks

ResetAllNotebooks ==
  /\ notebooks' = <<>>
  /\ last' = Result("reset_all_notebooks", None, TRUE, "none")
  /\ UNCHANGED <<gameVars, track>>

(***************************************************************************)
(* run_game calling retry_with_backoff on a crew's kickoff.                *)
(***************************************************************************)
RetryWithBackoff(func, max_retries, base_delay) ==
  /\ retry' = [func |-> func, max_retries |-> max_retries, base_delay |-> base_delay,
               outcome |-> retry_with_backoff(func, max_retries, base_delay)]
  /\ last' = Result("retry_with_backoff", None,
                    retry_with_backoff(func, max_retries, base_delay).returned, "none")
  /\ UNCHANGED <<gameVars, notebooks, track, calls>>

(***************************************************************************)
(* GameState.get_random_clue for a player: last.reason keeps the card the  *)
(* clue names, last.ok is FALSE when None is returned.                     *)
(***************************************************************************)
GetRandomClue(player_name, card_name) ==
  LET i == get_player_by_name(players, player_name) IN
  /\ i # 0
  /\ IF get_random_clue(players[i], solution) = {}
     THEN /\ card_name = None
          /\ last' = Result("get_random_clue", player_name, FALSE, "none")
     ELSE /\ card_name \in get_random_clue(players[i], solution)
          /\ last' = Result("get_random_clue", player_name, TRUE, card_name)
  /\ UNCHANGED <<gameVars, notebooks, track>>

(***************************************************************************)
(* Operations on the detective notebook of a player (notebook.py).         *)
(***************************************************************************)
player_names(ps) == [i \in 1..Len(ps) |-> ps[i].name]

\* names of the cards in a hand, in the order dealt
card_names(cards) == [j \in 1..Len(cards) |-> cards[j].name]

\* a notebook operation has left the storage nbs
Noted(op, owner, nbs, ok) ==
  /\ notebooks' = nbs
  /\ last' = Result(op, owner, ok, "none")
  /\ UNCHANGED <<gameVars, track>>

\* a marking operation on the notebook of owner has produced res
NotedMark(op, owner, opened, res) ==
  Noted(op, owner, [opened EXCEPT ![owner] = res.nb], res.ok)

MarkCardIn(owner, card_name, player_name, opened) ==
  NotedMark("mark_card", owner, opened,
            mark_card(opened[owner], card_name, player_name))

MarkCard(owner, card_name, player_name) ==
  /\ players # <<>>
  /\ MarkCardIn(owner, card_name, player_name,
                open_notebook(notebooks, owner, player_names(players)))

MarkNotHasIn(owner, card_name, player_name, opened) ==
  NotedMark("mark_not_has", owner, opened,
            mark_not_has(opened[owner], card_name, player_name))

MarkNotHas(owner, card_name, player_name) ==
  /\ players # <<>>
  /\ MarkNotHasIn(owner, card_name, player_name,
                  open_notebook(notebooks, owner, player_names(players)))

RecordMyCardsIn(owner, my_cards, opened) ==
  Noted("record_my_cards", owner,
        [opened EXCEPT ![owner] = record_my_cards(@, my_cards)], TRUE)

RecordMyCards(owner, my_cards) ==
  /\ players # <<>>
  /\ RecordMyCardsIn(owner, my_cards,
                     open_notebook(notebooks, owner, player_names(players)))

RecordSuggestionIn(owner, suspect, weapon, room, disprover, card_shown, passed, opened) ==
  Noted("record_suggestion", owner,
        [opened EXCEPT ![owner] =
           record_suggestion(@, suspect, weapon, room, disprover, card_shown, passed)],
        TRUE)

RecordSuggestion(owner, suspect, weapon, room, disprover, card_shown, passed) ==
  /\ players # <<>>
  /\ RecordSuggestionIn(owner, suspect, weapon, room, disprover, card_shown, passed,
                        open_notebook(notebooks, owner, player_names(players)))

\* update_all_notebooks_card_shown on the notebooks that exist
UpdateAllNotebooks(card_name, card_holder) ==
  /\ players # <<>>
  /\ notebooks # <<>>
  /\ Noted("update_all_notebooks_card_shown", None,
           update_all_notebooks_card_shown(notebooks, card_name, card_holder), TRUE)

\* the queries: what they answer is kept in last, the grid is only read
ValidateAccusation(owner, suspect, weapon, room) ==
  /\ owner \in DOMAIN notebooks
  /\ Noted("validate_accusation", owner, notebooks,
           validate_accusation(notebooks[owner], suspect, weapon, room))

GetAccusationRecommendation(owner) ==
  /\ owner \in DOMAIN notebooks
  /\ Noted("get_accusation_recommendation", owner, notebooks,
           get_accusation_recommendation(notebooks[owner]).can_accuse)

GetPossibleSolution(owner) ==
  /\ owner \in DOMAIN notebooks
  /\ Noted("get_possible_solution", owner, notebooks,
           get_possible_solution(notebooks[owner]).can_accuse)

(***************************************************************************)
(* Inputs of the model and the specifications.                             *)
(***************************************************************************)
NamedSuspects == {Suspect[i] : i \in 1..MaxNamed}
NamedWeapons == {Weapon[i] : i \in 1..MaxNamed}
NamedRooms == {Room[i] : i \in 1..MaxNamed}
DieFaces == 1..MaxDie

\* every solution random.choice can draw
AllSolutions ==
  {[suspect |-> suspect_cards[i], weapon |-> weapon_cards[j], room |-> room_cards[k]] :
     i \in 1..Len(Suspect), j \in 1..Len(Weapon), k \in 1..Len(Room)}

\* one more tool call or turn advance, while fewer than max have been made
Call(max) == calls < max /\ calls' = calls + 1 /\ UNCHANGED retry

SetupStep ==
  \E sol \in SolutionChoices, shift \in 0..MaxDeckShift, order \in 1..MaxCharOrder :
     Setup(NumPlayers, sol, shift, order)

\* setup_game for any number of names, any solution, several shuffles
DealStep ==
  \E n \in 1..Len(PLAYER_CONFIGS), sol \in AllSolutions, shift \in 0..MaxDealShift,
     order \in 1..MaxCharOrder :
       Setup(n, sol, shift, order)

RollStep == \E who \in Callers, die1 \in DieFaces, die2 \in DieFaces :
               RollDice(who, die1, die2)

MoveStep == \E who \in Callers, room \in Range(Room) : MoveToRoom(who, room)

SuggestStep == \E who \in Callers, suspect \in NamedSuspects, weapon \in NamedWeapons :
                  MakeSuggestion(who, suspect, weapon)

AccuseStep == \E who \in Callers, suspect \in NamedSuspects, weapon \in NamedWeapons,
                 room \in NamedRooms : MakeAccusation(who, suspect, weapon, room)

\* the whole game: any tool called for any player, and turn advances
Next ==
  \/ SetupStep /\ UNCHANGED <<calls, retry>>
  \/ RollStep /\ Call(MaxCalls)
  \/ MoveStep /\ Call(MaxCalls)
  \/ SuggestStep /\ Call(MaxCalls)
  \/ AccuseStep /\ Call(MaxCalls)
  \/ NextTurn /\ Call(MaxCalls)

Spec == Init /\ [][Next]_vars

\* movement and suggestions only, followed for more calls
NextMove ==
  \/ SetupStep /\ UNCHANGED <<calls, retry>>
  \/ RollStep /\ Call(MaxMoveCalls)
  \/ MoveStep /\ Call(MaxMoveCalls)
  \/ SuggestStep /\ Call(MaxMoveCalls)

SpecMove == Init /\ [][NextMove]_vars

\* the notebook of the first players, fed any marks and records
NoteOwners == {players[i].name : i \in 1..Len(players)} \cap
              {PLAYER_CONFIGS[i] : i \in 1..MaxOwners}
NoteCards == NamedSuspects \cup NamedWeapons \cup NamedRooms
Columns == Callers \cup {"ENVELOPE"}
\* the suggestions recorded: card i of each category, for the first indices
NoteTriples == {<<Suspect[i], Weapon[i], Room[i]>> : i \in 1..MaxNamed}
\* players_who_passed: nobody, the player after the first, everybody
PassLists == {<<>>, player_names(players)} \cup
             {<<players[i].name>> : i \in {2} \cap DOMAIN players}
\* (disprover, card shown) of a recorded suggestion naming the three cards
Showings(suspect, weapon, room) ==
  {<<None, None>>} \cup (Callers \X {suspect, weapon, room})

HandOf(name) == Range(card_names(players[get_player_by_name(players, name)].cards))

MarkCardStep ==
  \E owner \in NoteOwners, card \in NoteCards, col \in Columns :
     MarkCard(owner, card, col)

MarkNotHasStep ==
  \E owner \in NoteOwners, card \in NoteCards, col \in Callers :
     MarkNotHas(owner, card, col)

RecordMyCardsStep ==
  \E owner \in NoteOwners, holder \in Callers :
     RecordMyCards(owner, card_names(players[get_player_by_name(players, holder)].cards))

RecordSuggestionStep ==
  \E owner \in NoteOwners, named \in NoteTriples, passed \in PassLists :
     \E shown \in Showings(named[1], named[2], named[3]) :
        RecordSuggestion(owner, named[1], named[2], named[3], shown[1], shown[2], passed)

UpdateAllStep ==
  \E card \in NoteCards, holder \in Callers : UpdateAllNotebooks(card, holder)

ValidateStep ==
  \E owner \in NoteOwners, named \in NoteTriples :
     ValidateAccusation(owner, named[1], named[2], named[3])

RecommendStep == \E owner \in NoteOwners : GetAccusationRecommendation(owner)

PossibleStep == \E owner \in NoteOwners : GetPossibleSolution(owner)

NextNotes ==
  \/ SetupStep /\ UNCHANGED <<calls, retry>>
  \/ Call(MaxNoteCalls) /\ MarkCardStep
  \/ Call(MaxNoteCalls) /\ MarkNotHasStep
  \/ Call(MaxNoteCalls) /\ RecordMyCardsStep
  \/ Call(MaxNoteCalls) /\ RecordSuggestionStep
  \/ Call(MaxNoteCalls) /\ UpdateAllStep
  \/ ValidateStep /\ UNCHANGED <<calls, retry>>
  \/ RecommendStep /\ UNCHANGED <<calls, retry>>
  \/ PossibleStep /\ UNCHANGED <<calls, retry>>

SpecNotes == Init /\ [][NextNotes]_vars

\* the notebook fed what is true of the deal: the owner's own hand, a card
\* of the suggestion shown by a player who holds it, passes of players who
\* hold none of the three cards, the holder of a card named by a clue
TruePassLists(named) ==
  LET Passes(name) == HandOf(name) \cap named = {}
  IN {<<>>, SelectSeq(player_names(players), Passes)}
     \cup {<<name>> : name \in {n \in Callers : Passes(n)}}

TrueShowings(named) ==
  {<<None, None>>} \cup
  {shown \in Callers \X named : shown[2] \in HandOf(shown[1])}

TrueTriples ==
  {<<Suspect[i], Weapon[j], Room[k]>> : i, j, k \in 1..MaxTrueNamed}

OwnHandStep ==
  \E owner \in NoteOwners :
     RecordMyCards(owner, card_names(players[get_player_by_name(players, owner)].cards))

TrueSuggestionStep ==
  \E owner \in NoteOwners, named \in TrueTriples :
     \E passed \in TruePassLists({named[1], named[2], named[3]}),
        shown \in TrueShowings({named[1], named[2], named[3]}) :
        RecordSuggestion(owner, named[1], named[2], named[3], shown[1], shown[2], passed)

TrueClueStep ==
  \E card \in NoteCards, holder \in Callers :
     card \in HandOf(holder) /\ UpdateAllNotebooks(card, holder)

NextTrueNotes ==
  \/ SetupStep /\ UNCHANGED <<calls, retry>>
  \/ Call(MaxTrueCalls) /\ OwnHandStep
  \/ Call(MaxTrueCalls) /\ TrueSuggestionStep
  \/ Call(MaxTrueCalls) /\ TrueClueStep
  \/ RecommendStep /\ UNCHANGED <<calls, retry>>

SpecTrueNotes == Init /\ [][NextTrueNotes]_vars

\* clues for the players of games of every size
ClueDealStep ==
  \E n \in 1..Len(PLAYER_CONFIGS), sol \in SolutionChoices, shift \in 0..MaxDealShift :
     Setup(n, sol, shift, 1)

ClueStep ==
  \E who \in Callers, card \in CardNames \cup {None} : GetRandomClue(who, card)

NextClue ==
  \/ ClueDealStep /\ UNCHANGED <<calls, retry>>
  \/ ClueStep /\ UNCHANGED <<calls, retry>>

SpecClue == Init /\ [][NextClue]_vars

\* setup_game over the shuffles of the characters that put Miss Scarlet at
\* each index of available_characters
SeatStep ==
  \E n \in 1..Len(PLAYER_CONFIGS), sol \in AllSolutions, order \in 1..Len(Suspect) :
     Setup(n, sol, 0, order)

NextSeat == SeatStep /\ UNCHANGED <<calls, retry>>

SpecSeat == Init /\ [][NextSeat]_vars

\* games and notebooks that are reset and set up again
NextReset ==
  \/ Call(MaxResetCalls) /\ SetupStep
  \/ Call(MaxResetCalls) /\ MarkCardStep
  \/ Call(MaxResetCalls) /\ AccuseStep
  \/ Call(MaxResetCalls) /\ NextTurn
  \/ Call(MaxResetCalls) /\ ResetGameState
  \/ Call(MaxResetCalls) /\ ResetAllNotebooks

SpecReset == Init /\ [][NextReset]_vars

\* one call of retry_with_backoff, for every behaviour of the function over
\* its calls
RetryStep ==
  /\ retry = NoRetry
  /\ \E max_retries \in 0..MaxRetries, base_delay \in 1..MaxBaseDelay :
     \E func \in [1..(max_retries + 1) -> Outcomes] :
        RetryWithBackoff(func, max_retries, base_delay)

NextRetry == RetryStep

SpecRetry == Init /\ [][NextRetry]_vars

\* the tools called with any name, known or not, by anybody
AnyCallers == Callers \cup {"Nobody"}
AnySuspects == NamedSuspects \cup {"miss scarlet", "Nobody"}
AnyWeapons == NamedWeapons \cup {"KNIFE", "Nothing"}
AnyRooms == NamedRooms \cup {"kitchen", "Nowhere"}

SuggestAnyStep ==
  \E who \in AnyCallers, suspect \in AnySuspects, weapon \in AnyWeapons :
     MakeSuggestion(who, suspect, weapon)

AccuseAnyStep ==
  \E who \in AnyCallers, suspect \in AnySuspects, weapon \in AnyWeapons,
     room \in AnyRooms : MakeAccusation(who, suspect, weapon, room)

NextReject ==
  \/ SetupStep /\ UNCHANGED <<calls, retry>>
  \/ Call(MaxRejectCalls) /\ RollStep
  \/ Call(MaxRejectCalls) /\ MoveStep
  \/ Call(MaxRejectCalls) /\ SuggestAnyStep
  \/ Call(MaxRejectCalls) /\ AccuseAnyStep
  \/ Call(MaxRejectCalls) /\ NextTurn

SpecReject == Init /\ [][NextReject]_vars

\* mark_card and mark_not_has called with known and unknown cards and owners,
\* the envelope in the spellings upper() accepts
AnyNoteCards == NoteCards \cup {"Nothing"}
AnyColumns == Callers \cup {"ENVELOPE", "envelope", "Nobody"}

MarkAnyStep ==
  \E owner \in NoteOwners, card \in AnyNoteCards, col \in AnyColumns :
     MarkCard(owner, card, col)

MarkNotHasAnyStep ==
  \E owner \in NoteOwners, card \in AnyNoteCards, col \in AnyColumns :
     MarkNotHas(owner, card, col)

NextMarks ==
  \/ SetupStep /\ UNCHANGED <<calls, retry>>
  \/ Call(MaxMarkCalls) /\ MarkAnyStep
  \/ Call(MaxMarkCalls) /\ MarkNotHasAnyStep

SpecMarks == Init /\ [][NextMarks]_vars

\* the cells exit_room_to_hallway is called with: every door, the hallway cell
\* next to the Kitchen door, a wall, a cell off the board
ExitCells ==
  {DOOR_POSITIONS[d].pos : d \in 1..Len(DOOR_POSITIONS)}
    \cup {<<7, 6>>, <<0, 0>>, <<0 - 1, 3>>}

ExitStep == \E who \in Callers, pos \in ExitCells : ExitRoomToHallway(who, pos)

\* movement with room exits asked for directly
NextExit ==
  \/ SetupStep /\ UNCHANGED <<calls, retry>>
  \/ Call(MaxExitCalls) /\ RollStep
  \/ Call(MaxExitCalls) /\ MoveStep
  \/ Call(MaxExitCalls) /\ SuggestStep
  \/ Call(MaxExitCalls) /\ ExitStep

SpecExit == Init /\ [][NextExit]_vars

\* rolls of up to 2 * MaxVisitDie, moves and room exits
RollVisitStep ==
  \E who \in Callers, die1 \in MaxDie..MaxVisitDie, die2 \in MaxDie..MaxVisitDie :
     RollDice(who, die1, die2)

NextVisit ==
  \/ SetupStep /\ UNCHANGED <<calls, retry>>
  \/ Call(MaxVisitCalls) /\ RollVisitStep
  \/ Call(MaxVisitCalls) /\ MoveStep
  \/ Call(MaxVisitCalls) /\ ExitStep

SpecVisit == Init /\ [][NextVisit]_vars

\* accusations and turn advances, also after the game is over
NextTurns ==
  \/ SetupStep /\ UNCHANGED <<calls, retry>>
  \/ Call(MaxTurnCalls) /\ AccuseStep
  \/ Call(MaxTurnCalls) /\ AdvanceTurn

SpecTurns == Init /\ [][NextTurns]_vars

\* setup_game alone, over all its inputs
NextDeal == DealStep /\ UNCHANGED <<calls, retry>>

SpecDeal == Init /\ [][NextDeal]_vars
(***************************************************************************)
(* Properties.                                                             *)
(***************************************************************************)
\* seat (1-based) of the player with that name
Seat(name) == get_player_by_name(players, name)

\* names of the cards in the hand of the player at seat i
Hand(i) == {players[i].cards[j].name : j \in 1..Len(players[i].cards)}

HandSlots == UNION {{<<i, j>> : j \in 1..Len(players[i].cards)} : i \in Seats}

TimesDealt(c) == Cardinality({x \in HandSlots : players[x[1]].cards[x[2]] = c})

SolutionCards == {solution.suspect, solution.weapon, solution.room}

SolutionCardNames == {solution.suspect.name, solution.weapon.name, solution.room.name}

\* C1: after setup_game, whatever the list of players, every one of the 21
\* cards is either in exactly one hand, once, or is one of the three solution
\* cards, never both; the solution has one suspect, one weapon and one room.
C1_DealPartition ==
  players # <<>> =>
    /\ Cardinality(Range(AllCards)) = 21
    /\ Len(suspect_cards) = 6 /\ Len(weapon_cards) = 6 /\ Len(room_cards) = 9
    /\ solution.suspect \in Range(suspect_cards)
    /\ solution.weapon \in Range(weapon_cards)
    /\ solution.room \in Range(room_cards)
    /\ \A x \in HandSlots : players[x[1]].cards[x[2]] \in Range(AllCards)
    /\ \A c \in Range(AllCards) :
          TimesDealt(c) + (IF c \in SolutionCards THEN 1 ELSE 0) = 1

\* C1 witness: a deal to four players, whose hands differ in size, with a
\* solution other than the first card of each category
C1_UnevenDeal ==
  /\ Len(players) = 4
  /\ Len(players[1].cards) = 5
  /\ Len(players[4].cards) = 4
  /\ solution.suspect.name = "Professor Plum"
  /\ solution.room.name = "Lounge"

\* where move_to_room may put a player, and the budget it spends
Whereabouts(p) ==
  <<p.current_room, p.in_hallway, p.position, p.moves_remaining, p.visited_this_turn>>

InsideRoom(p) == p.current_room # None /\ ~p.in_hallway

\* room is not the passage destination of the player's room and is out of
\* reach: the budget is spent, or no path of the hallway leads to it in budget
OutOfReach(i, room) ==
  /\ InsideRoom(players[i]) => SECRET_PASSAGES[players[i].current_room] # room
  /\ \/ players[i].moves_remaining = 0
     \/ /\ ~InsideRoom(players[i])
        /\ FirstReachable(get_reachable_rooms(players[i],
                             get_occupied_positions(players, i)), room) = 0

\* C2: move_to_room for a room that is not the passage destination and is out
\* of reach returns a failure and leaves the player's room, hallway flag,
\* position, budget and visited cells as they were, also from inside a room.
C2_FailedMoveChangesNothing ==
  [][\A who \in Callers :
       (last'.op = "move_to_room" /\ last'.who = who) =>
          \A room \in Range(Room) :
             (OutOfReach(Seat(who), room) /\ MoveToRoom(who, room)) =>
                /\ ~last'.ok
                /\ Whereabouts(players'[Seat(who)]) = Whereabouts(players[Seat(who)])]_vars

\* the step is a move_to_room call that takes the player at seat i into a room
EntersRoom(i) ==
  /\ last'.op = "move_to_room"
  /\ last'.who = players[i].name
  /\ players'[i].current_room # None
  /\ players[i].current_room # players'[i].current_room

\* C3: whenever a player enters a room by its own movement, through a door or
\* a secret passage, it is left with no budget and entered_room_this_turn set.
C3_EnteringEndsMovement ==
  [][\A i \in Seats :
       EntersRoom(i) =>
          /\ players'[i].moves_remaining = 0
          /\ players'[i].entered_room_this_turn]_vars

\* C3 witness: a player who walked into the Study and took the passage
C3_EnteredByPassage ==
  /\ last.op = "move_to_room"
  /\ last.reason = "passage"
  /\ \E i \in Seats :
        /\ players[i].name = last.who
        /\ players[i].current_room = "Kitchen"
        /\ players[i].visited_this_turn # {}
        /\ players[i].moves_remaining = 0
        /\ players[i].entered_room_this_turn

\* the player at seat i is in no room, or in a room it neither entered by its
\* own movement since its last roll nor was pulled into by another player
NotFreshlyEntered(i) ==
  \/ players[i].current_room = None
  \/ /\ track[i].entered_room # players[i].current_room
     /\ track[i].pulled_room # players[i].current_room

\* C4: a suggestion is rejected whenever the suggester is in no room, or in a
\* room it did not enter during the current turn and was not pulled into by
\* another player's suggestion.
C4_StaleSuggestionRejected ==
  [][\A i \in Seats :
       (/\ last'.op = "make_suggestion"
        /\ last'.who = players[i].name
        /\ NotFreshlyEntered(i)) => ~last'.ok]_vars

\* C5: a second suggestion by the same player in the room of its last
\* suggestion, which it has not left since, is rejected, unless another
\* player's suggestion moved the player into that room.
C5_RepeatedSuggestionRejected ==
  [][\A i \in Seats :
       (/\ last'.op = "make_suggestion"
        /\ last'.who = players[i].name
        /\ players[i].current_room # None
        /\ track[i].sugg_room = players[i].current_room
        /\ track[i].pulled_room # players[i].current_room) => ~last'.ok]_vars

\* the player at seat j holds one of the cards the suggestion s names
Holds(j, s) == Hand(j) \cap {s.suspect, s.weapon, s.room} # {}

\* seats passed going clockwise from seat i to seat j
Clockwise(i, j) == (j - i + Len(players)) % Len(players)

\* C6: the disprover of a suggestion is the first player after the suggester
\* in seating order, wrapping around, eliminated or not, that holds one of the
\* three named cards; no player between the two holds any of them.
C6_FirstHolderDisproves ==
  \A h \in 1..Len(suggestion_history) :
     LET s == suggestion_history[h]
         i == Seat(s.suggester)
     IN /\ (\E j \in Seats \ {i} : Holds(j, s)) => s.disproven_by # None
        /\ s.disproven_by # None =>
              /\ Seat(s.disproven_by) \in Seats \ {i}
              /\ Holds(Seat(s.disproven_by), s)
              /\ \A j \in Seats \ {i} :
                    Clockwise(i, j) < Clockwise(i, Seat(s.disproven_by)) => ~Holds(j, s)

\* C6 witness: the suggestion just made was disproved by an eliminated player
\* two seats after the suggester
C6_EliminatedDisproves ==
  /\ last.op = "make_suggestion"
  /\ last.ok
  /\ suggestion_history # <<>>
  /\ LET s == suggestion_history[Len(suggestion_history)] IN
       /\ s.disproven_by # None
       /\ ~players[Seat(s.disproven_by)].is_active
       /\ Clockwise(Seat(s.suggester), Seat(s.disproven_by)) = 2

\* C7: the card shown is one card that is in the disprover's hand and is one
\* of the three named cards; when no player but the suggester holds any of
\* them the suggestion is recorded with no disprover and no card shown.
C7_ShownCardIsNamedAndHeld ==
  \A h \in 1..Len(suggestion_history) :
     LET s == suggestion_history[h] IN
       /\ s.disproven_by # None =>
             /\ s.card_shown \in Hand(Seat(s.disproven_by))
             /\ s.card_shown \in {s.suspect, s.weapon, s.room}
       /\ (\A j \in Seats \ {Seat(s.suggester)} : ~Holds(j, s)) =>
             s.disproven_by = None /\ s.card_shown = None
       /\ s.disproven_by = None => s.card_shown = None

\* C7 witness: one suggestion whose disprover held two of the named cards and
\* showed the room, and one that nobody could disprove
C7_ChoiceAndNoDisproof ==
  /\ Len(suggestion_history) = 2
  /\ suggestion_history[1].disproven_by # None
  /\ Cardinality(Hand(Seat(suggestion_history[1].disproven_by))
                   \cap {suggestion_history[1].suspect, suggestion_history[1].weapon,
                         suggestion_history[1].room}) = 2
  /\ suggestion_history[1].card_shown = suggestion_history[1].room
  /\ suggestion_history[2].disproven_by = None
  /\ suggestion_history[2].card_shown = None

IsSolution(suspect, weapon, room) ==
  /\ suspect = solution.suspect.name
  /\ weapon = solution.weapon.name
  /\ room = solution.room.name

\* what make_accusation answers the player at seat i who names the triple
JudgedRight(i, suspect, weapon, room, res) ==
  IF IsSolution(suspect, weapon, room)
  THEN /\ ~res.raised /\ res.correct
       /\ res.game_over /\ res.winner = players[i].name
  ELSE /\ ~res.correct
       /\ (res.game_over # game_over \/ res.winner # winner) =>
             res.winner # players[i].name

\* C8: make_accusation with the three solution cards returns true and sets
\* game_over and winner = the accuser, wherever the accuser is; a triple that
\* differs from the solution in a component is never treated as correct.
C8_OnlyTheSolutionWins ==
  /\ \A i \in Seats :
        ~players[i].has_accused_this_turn =>
           \A suspect \in NamedSuspects, weapon \in NamedWeapons, room \in NamedRooms :
              JudgedRight(i, suspect, weapon, room,
                          make_accusation(players, i, solution, suspect, weapon, room,
                                          game_over, winner))
  /\ (last.op = "make_accusation" /\ last.reason = "correct") =>
        game_over /\ winner = last.who

\* C8 witness: a player standing in the Study has just won with an
\* accusation that names another room
C8_WonFromAnotherRoom ==
  /\ last.op = "make_accusation"
  /\ last.reason = "correct"
  /\ game_over
  /\ winner = last.who
  /\ players[Seat(last.who)].current_room = "Study"
  /\ solution.room.name # "Study"

\* C9: an incorrect accusation makes the accuser inactive; an inactive player
\* never becomes active again, and every later accusation it attempts is
\* rejected and changes nothing of the game.
C9_EliminationIsPermanent ==
  [][/\ (last'.op = "make_accusation" /\ last'.reason = "wrong") =>
           ~players'[Seat(last'.who)].is_active
     /\ \A i \in Seats : ~players[i].is_active => ~players'[i].is_active
     /\ \A i \in Seats :
           (/\ last'.op = "make_accusation"
            /\ last'.who = players[i].name
            /\ ~players[i].is_active) =>
              /\ ~last'.ok
              /\ gameVars' = gameVars]_vars

\* C9 witness: after a turn advance, the accusation of a player eliminated
\* earlier has just been rejected
C9_EliminatedRejected ==
  /\ last.op = "make_accusation"
  /\ last.reason = "eliminated"
  /\ turn_number > 1
  /\ ~players[Seat(last.who)].is_active
  /\ ~players[Seat(last.who)].has_accused_this_turn

\* C10: after an incorrect accusation, if exactly one active player remains
\* the game is over and that player is the winner; if two or more remain,
\* game_over and winner are as they were.
C10_LastActivePlayerWins ==
  [][(last'.op = "make_accusation" /\ last'.reason = "wrong") =>
        LET remaining == {i \in 1..Len(players') : players'[i].is_active} IN
          /\ Cardinality(remaining) = 1 =>
                /\ game_over'
                /\ \A i \in remaining : winner' = players'[i].name
          /\ Cardinality(remaining) >= 2 =>
                /\ game_over' = game_over
                /\ winner' = winner]_vars

\* C10 witness: a wrong accusation has just left one active player, who wins
C10_WonByDefault ==
  /\ last.op = "make_accusation"
  /\ last.reason = "wrong"
  /\ game_over
  /\ Cardinality({i \in Seats : players[i].is_active}) = 1
  /\ \E i \in Seats : players[i].is_active /\ winner = players[i].name
  /\ winner # last.who
\* the step is a make_accusation call for the player at seat i
AccusesAt(i) == last'.op = "make_accusation" /\ last'.who = players[i].name

\* C11: a player completes at most one accusation between two turn advances:
\* an accusation by a player whose has_accused_this_turn is set is rejected
\* and changes nothing, a completed accusation sets the flag, only next_turn
\* clears it, and next_turn leaves it clear for the outgoing and the incoming
\* current player.
C11_OneAccusationPerTurn ==
  [][/\ \A i \in Seats :
          /\ (AccusesAt(i) /\ players[i].has_accused_this_turn) =>
                (~last'.ok /\ gameVars' = gameVars)
          /\ (AccusesAt(i) /\ last'.reason \in {"correct", "wrong"}) =>
                (~players[i].has_accused_this_turn /\ players'[i].has_accused_this_turn)
          /\ (players[i].has_accused_this_turn /\ ~players'[i].has_accused_this_turn) =>
                last'.op = "next_turn"
     /\ (players # <<>> /\ last'.op = "next_turn") =>
          /\ ~players'[current_player_index + 1].has_accused_this_turn
          /\ ~players'[current_player_index' + 1].has_accused_this_turn]_vars

\* C11 witness: after a turn advance cleared the flag of an eliminated player,
\* the second accusation of another player in one turn has just been rejected
C11_SecondAccusationRejected ==
  /\ last.op = "make_accusation"
  /\ last.reason = "already_accused"
  /\ turn_number > 1
  /\ players[Seat(last.who)].has_accused_this_turn
  /\ \E i \in Seats : ~players[i].is_active /\ ~players[i].has_accused_this_turn
\* the status of a card in a column of a notebook: a player, or the envelope
Cell(nb, card, column) ==
  IF column = "ENVELOPE" THEN nb.entries[card].envelope_status
  ELSE nb.entries[card].player_status[column]

GridColumns(nb) == Range(nb.all_players) \cup {"ENVELOPE"}

\* C12: across any sequence of notebook operations (mark_card, mark_not_has,
\* record_my_cards, record_suggestion, update_all_notebooks_card_shown), a
\* cell that is Has or DoesNotHave keeps that status ever after.
C12_NotebookMonotonic ==
  [][\A owner \in DOMAIN notebooks :
       \A card \in CardNames, column \in GridColumns(notebooks[owner]) :
          Cell(notebooks[owner], card, column) \in {HAS, NOT_HAS} =>
             Cell(notebooks'[owner], card, column) = Cell(notebooks[owner], card, column)]_vars

\* the grids that mark_card and mark_not_has hand to _check_deductions when
\* they are called on the notebook nb
RawMarks(nb) ==
  {[nb.entries EXCEPT ![card] = marked_entry(@, column)] :
      card \in NoteCards, column \in Range(nb.all_players) \cup {"ENVELOPE"}}
  \cup
  {[nb.entries EXCEPT ![card].player_status[player] = NOT_HAS] :
      card \in NoteCards, player \in Range(nb.all_players)}

NobodyHolds(entry) ==
  \A p \in DOMAIN entry.player_status : entry.player_status[p] = NOT_HAS

Deduced(entries) ==
  \A card \in DOMAIN entries :
     /\ ~(NobodyHolds(entries[card]) /\ entries[card].envelope_status = UNKNOWN)
     /\ entries[card].envelope_status = HAS => NobodyHolds(entries[card])

\* C13: _check_deductions terminates (at most two passes of its loop on any
\* grid a mark hands to it) and is idempotent, and every notebook is left
\* with no card that every player lacks while the envelope is Unknown, and
\* with every player DoesNotHave on a card whose envelope is Has.
C13_DeductionsSettle ==
  \A owner \in DOMAIN notebooks :
     /\ Deduced(notebooks[owner].entries)
     /\ check_deductions(notebooks[owner].entries) = notebooks[owner].entries
     /\ \A raw \in RawMarks(notebooks[owner]) :
           /\ deduction_passes(raw, 0, 3) <= 2
           /\ check_deductions(check_deductions(raw)) = check_deductions(raw)
           /\ Deduced(check_deductions(raw))

\* a first record in which everybody passed: the envelope is deduced
C13_EnvelopeDeduced ==
  /\ last.op = "record_suggestion"
  /\ calls = 1
  /\ \E owner \in DOMAIN notebooks, card \in CardNames :
        notebooks[owner].entries[card].envelope_status = HAS

\* the cards of a category whose envelope status is Has
EnvelopeHas(nb, card_type) ==
  {card \in CardNames :
     CardType[card] = card_type /\ nb.entries[card].envelope_status = HAS}

\* the cards of a category whose envelope status is not DoesNotHave and that
\* no player is marked as holding
Surviving(nb, card_type) ==
  {card \in CardNames :
     /\ CardType[card] = card_type
     /\ nb.entries[card].envelope_status # NOT_HAS
     /\ \A p \in Range(nb.all_players) : nb.entries[card].player_status[p] # HAS}

OneCandidate(nb, card_type) ==
  EnvelopeHas(nb, card_type) # {} \/ Cardinality(Surviving(nb, card_type)) = 1

IsCandidate(nb, card_type, card) ==
  IF EnvelopeHas(nb, card_type) # {} THEN card \in EnvelopeHas(nb, card_type)
  ELSE Surviving(nb, card_type) = {card}

Accusable(nb) ==
  OneCandidate(nb, "suspect") /\ OneCandidate(nb, "weapon") /\ OneCandidate(nb, "room")

SameVerdict(nb, recommended, announced) ==
  /\ recommended = announced
  /\ recommended.can_accuse <=> Accusable(nb)
  /\ recommended.can_accuse =>
        /\ IsCandidate(nb, "suspect", recommended.suspect)
        /\ IsCandidate(nb, "weapon", recommended.weapon)
        /\ IsCandidate(nb, "room", recommended.room)

Findings(nb, cards) ==
  {<<card, "held">> : card \in {c \in cards :
      \E p \in Range(nb.all_players) : nb.entries[c].player_status[p] = HAS}}
  \cup
  {<<card, "excluded">> : card \in {c \in cards :
      nb.entries[c].envelope_status = NOT_HAS}}

Validated(nb, suspect, weapon, room, findings) ==
  /\ accusation_warnings(nb, suspect, weapon, room) = Cardinality(findings)
  /\ validate_accusation(nb, suspect, weapon, room) <=> findings = {}

\* C15: validate_accusation answers valid = false exactly when one of the
\* three cards is held by a player or excluded from the envelope in the
\* notebook, with one warning per finding, and valid = true without warnings
\* otherwise; the call leaves every notebook as it was.
C15_ValidationReportsFindings ==
  [][\A owner \in DOMAIN notebooks, named \in NoteTriples :
        /\ Validated(notebooks[owner], named[1], named[2], named[3],
                     Findings(notebooks[owner], {named[1], named[2], named[3]}))
        /\ ValidateAccusation(owner, named[1], named[2], named[3]) =>
              /\ notebooks' = notebooks
              /\ last'.ok = (Findings(notebooks[owner], {named[1], named[2], named[3]}) = {})]_vars

\* an accusation was found to contradict the notebook
C15_AccusationContradicted ==
  /\ last.op = "validate_accusation"
  /\ ~last.ok
  /\ \E named \in NoteTriples :
        Findings(notebooks[last.who], {named[1], named[2], named[3]}) # {}

\* what the notebook nb says agrees with the deal
Sound(nb) ==
  /\ \A card \in CardNames, name \in Range(nb.all_players) :
        /\ nb.entries[card].player_status[name] = HAS => card \in HandOf(name)
        /\ nb.entries[card].player_status[name] = NOT_HAS => card \notin HandOf(name)
  /\ \A card \in CardNames :
        /\ nb.entries[card].envelope_status = HAS =>
              card \in {solution.suspect.name, solution.weapon.name, solution.room.name}
        /\ nb.entries[card].envelope_status = NOT_HAS =>
              card \notin {solution.suspect.name, solution.weapon.name, solution.room.name}

RecommendsSolution(recommended) ==
  recommended.can_accuse =>
     IsSolution(recommended.suspect, recommended.weapon, recommended.room)

\* C16: a notebook that was only fed true events agrees with the deal in
\* every Has and DoesNotHave cell, players' and envelope's, and when it says
\* that an accusation can be made the triple it names is the solution.
C16_TrueEventsKeepNotebookSound ==
  \A owner \in DOMAIN notebooks :
     /\ Sound(notebooks[owner])
     /\ RecommendsSolution(get_accusation_recommendation(notebooks[owner]))

\* the notebook found the solution from true events
C16_SolutionFound ==
  /\ last.op = "get_accusation_recommendation"
  /\ last.ok
  /\ calls > 0

\* C17: the make_accusation tool compares an accusation with the solution
\* only when the notebook of the accuser has one candidate in every category;
\* otherwise the accusation is blocked and the accuser neither wins nor is
\* eliminated.
C17_AccusationNeedsNarrowedNotebook ==
  [][(/\ last'.op = "make_accusation"
      /\ last'.who \in DOMAIN notebooks'
      /\ ~Accusable(notebooks'[last'.who]))
        => /\ last'.reason \notin {"correct", "wrong"}
           /\ winner' = winner
           /\ \A i \in Seats : players'[i].is_active = players[i].is_active]_vars

\* C18: a roll of the dice for a player of the game, whatever the two faces,
\* returns its result: the movement budget is the sum of the faces, and a
\* face showing 1 gives its clue without making the call fail.
C18_RollReturnsItsResult ==
  [][\A who \in Callers, die1 \in DieFaces, die2 \in DieFaces :
        RollDice(who, die1, die2) =>
           /\ last'.ok
           /\ players'[Seat(who)].moves_remaining = die1 + die2]_vars

\* C19: a clue given to a player names a card that is neither a solution
\* card nor in the hand of that player, and no clue is given exactly when
\* there is no such card.
C19_ClueOutsideSolutionAndHand ==
  last.op = "get_random_clue" =>
     IF last.ok
     THEN last.reason \in CardNames \ (SolutionCardNames \cup Hand(Seat(last.who)))
     ELSE CardNames \subseteq SolutionCardNames \cup Hand(Seat(last.who))

\* a clue was given to a player who shares the cards with others
C19_ClueGiven ==
  /\ last.op = "get_random_clue"
  /\ last.ok
  /\ Len(players) >= 3
  /\ Hand(Seat(last.who)) # {}

\* C20: setup_game only succeeds for 3 to 6 names; with fewer or more it
\* creates no players, no hands and no solution.
C20_SetupNeedsThreeToSix ==
  (players # <<>> \/ solution # NoSolution) => Len(players) \in 3..6

\* the names given to setup_game, in the order given
GivenNames == SubSeq(PLAYER_CONFIGS, 1, Len(players))

ScarletHolders == {players[i].name : i \in {j \in Seats : players[j].character = "Miss Scarlet"}}

Without(names, left_out) ==
  LET Kept(name) == name \notin left_out IN SelectSeq(names, Kept)

\* C21: after setup the characters of the players are pairwise different;
\* a player who was assigned Miss Scarlet is at seat 0, and the other
\* players are in the order in which their names were given.
C21_ScarletFirstOthersInOrder ==
  players # <<>> =>
     /\ \A i, j \in Seats : i # j => players[i].character # players[j].character
     /\ ScarletHolders # {} => players[1].character = "Miss Scarlet"
     /\ Without(player_names(players), ScarletHolders) = Without(GivenNames, ScarletHolders)

\* Miss Scarlet went to a player named third or later, who was moved to seat 0
C21_ScarletMovedToFront ==
  /\ Len(players) >= 4
  /\ players[1].character = "Miss Scarlet"
  /\ players[1].name \notin {PLAYER_CONFIGS[1], PLAYER_CONFIGS[2]}

\* C22: after a reset nothing of the previous game is left: no players, no
\* solution, no suggestion history, turn_number 1, game_over false, and no
\* notebook with a mark (a notebook obtained afterwards is newly created).
C22_ResetDiscardsEverything ==
  last.op \in {"reset_game_state", "reset_all_notebooks"} =>
     /\ players = <<>>
     /\ solution = NoSolution
     /\ suggestion_history = <<>>
     /\ turn_number = 1
     /\ ~game_over
     /\ notebooks = <<>>

Attempts == 0..retry.max_retries

Fails(attempt) == retry.func[attempt + 1] \in {"raises", "none", "empty_raw"}

\* C23: retry_with_backoff calls the function at most max_retries + 1
\* times; it returns the result of the first attempt that neither raises nor
\* gives an empty response and makes no further call; when every attempt
\* fails it raises the exception of the last attempt; it has slept
\* base_delay * 2^k after each failed attempt k but the last one.
C23_RetryWithBackoff ==
  last.op = "retry_with_backoff" =>
     /\ retry.outcome.calls <= retry.max_retries + 1
     /\ IF \E k \in Attempts : ~Fails(k)
        THEN /\ retry.outcome.returned
             /\ ~Fails(retry.outcome.value[2])
             /\ \A k \in 0..(retry.outcome.value[2] - 1) : Fails(k)
             /\ retry.outcome.value[1] = retry.func[retry.outcome.value[2] + 1]
             /\ retry.outcome.calls = retry.outcome.value[2] + 1
        ELSE /\ ~retry.outcome.returned
             /\ retry.outcome.value[2] = retry.max_retries
             /\ retry.outcome.value[1] =
                   IF retry.func[retry.max_retries + 1] = "raises"
                   THEN "Exception" ELSE "ValueError"
             /\ retry.outcome.calls = retry.max_retries + 1
     /\ Len(retry.outcome.slept) = retry.outcome.calls - 1
     /\ \A k \in 1..Len(retry.outcome.slept) :
           retry.outcome.slept[k] = retry.base_delay * (2 ^ (k - 1))

\* every attempt failed, the last one by an empty response, after retries
C23_RetriesExhausted ==
  /\ last.op = "retry_with_backoff"
  /\ ~retry.outcome.returned
  /\ retry.max_retries >= 2
  /\ retry.func[retry.max_retries + 1] = "empty_raw"
  /\ Len(retry.outcome.slept) = retry.max_retries

Rejections ==
  {"unknown_player", "not_in_room", "not_entered", "repeated", "invalid_suspect",
   "invalid_weapon", "invalid_name", "already_accused"}

InTheHallway(p) == p.position # NoPos /\ p.current_room = None /\ p.in_hallway
\* a player inside a room: a room and no grid cell
InsideARoom(p) == p.current_room # None /\ p.position = NoPos /\ ~p.in_hallway

\* C25: in every reachable state each player is either in the hallway
\* (position set, current_room empty, in_hallway true) or inside a room
\* (current_room set, position empty, in_hallway false), never both and never
\* neither, also after a relocation by a suggestion.
C25_HallwayOrRoom ==
  \A i \in DOMAIN players :
     InTheHallway(players[i]) # InsideARoom(players[i])

\* where a player is
Location(p) == <<p.current_room, p.position, p.in_hallway>>

\* the suggestion just appended to the history
LatestSuggestion == suggestion_history[Len(suggestion_history)]

\* C26: a successful suggestion naming suspect S moves the player whose
\* character is S, if there is one, into the suggester's room and marks that
\* player was_moved_by_suggestion; the location of every other player is
\* unchanged, and the moved player may then make a suggestion in that room
\* without having entered it by their own movement.
C26_SuggestionMovesSuspect ==
  [][(last'.op = "make_suggestion" /\ last'.ok) =>
        LET i == get_player_by_name(players, last'.who)
            k == SuspectSeat(players, LatestSuggestion'.suspect)
        IN /\ k # 0 =>
                /\ players'[k].current_room = players[i].current_room
                /\ players'[k].was_moved_by_suggestion
                /\ suggestion_error(players'[k]) = "ok"
           /\ \A j \in DOMAIN players :
                j # k => Location(players'[j]) = Location(players[j])]_vars

\* a player who stood elsewhere was pulled into the suggester's room
C26_SuspectPulled ==
  /\ last.op = "make_suggestion"
  /\ last.ok
  /\ \E k \in DOMAIN players :
        /\ players[k].name # last.who
        /\ players[k].character = LatestSuggestion.suspect
        /\ players[k].was_moved_by_suggestion
        /\ players[k].position # NoPos
        /\ players[k].current_room = players[Seat(last.who)].current_room

\* seats of the active players
ActiveSeats(ps) == {j \in 1..Len(ps) : ps[j].is_active}

\* 0-based index of the first active player met going clockwise from the
\* player after index, the player at index last
FirstActiveAfter(ps, index) ==
  LET d == CHOOSE d \in 1..Len(ps) :
             /\ ps[((index + d) % Len(ps)) + 1].is_active
             /\ \A e \in 1..(d - 1) : ~ps[((index + e) % Len(ps)) + 1].is_active
  IN (index + d) % Len(ps)

\* C27: next_turn ends after at most N skip attempts for N players, also when
\* every player is eliminated; it increases turn_number by exactly 1 and
\* leaves current_player_index at the first active player following the
\* outgoing player.
C27_NextTurnSkipsInactive ==
  [][last'.op = "next_turn" =>
        /\ skip_attempts(players, (current_player_index + 1) % Len(players), 0)
              <= Len(players)
        /\ turn_number' = turn_number + 1
        /\ current_player_index' \in 0..(Len(players) - 1)
        /\ ActiveSeats(players) # {} =>
              current_player_index' = FirstActiveAfter(players, current_player_index)]_vars

\* a turn advance was made when every player was eliminated
C27_AllEliminated ==
  /\ last.op = "next_turn"
  /\ players # <<>>
  /\ ActiveSeats(players) = {}

\* the column of the grid an owner name stands for, None when it names neither
\* a player of the notebook nor the envelope
ColumnOf(nb, player_name) ==
  IF player_name \in Range(nb.all_players) THEN player_name
  ELSE IF UpperIsEnvelope(player_name) THEN "ENVELOPE"
  ELSE None

\* the notebook of owner as get_notebook hands it out before the call
Opened(owner) == open_notebook(notebooks, owner, player_names(players))[owner]

\* C28: after a successful mark_card(card, owner), owner a player or the
\* envelope, the owner's cell of the card is Has and the cell of every other
\* owner (the other players, and the envelope when the owner is a player) is
\* DoesNotHave; with an unknown card or an unknown owner mark_card returns an
\* error and the grid is unchanged.
C28_MarkCardSetsRow ==
  [][\A owner \in NoteOwners, card \in AnyNoteCards, col \in AnyColumns :
       MarkCard(owner, card, col) =>
         LET before == Opened(owner)
             after == notebooks'[owner]
             column == ColumnOf(before, col)
         IN IF card \in CardNames /\ column # None
            THEN /\ last'.ok
                 /\ Cell(after, card, column) = HAS
                 /\ \A other \in GridColumns(after) \ {column} :
                       Cell(after, card, other) = NOT_HAS
            ELSE /\ ~last'.ok
                 /\ after.entries = before.entries]_vars

\* the owners (players and envelope) marked Has for a card in a notebook
Holders(nb, card) == {column \in GridColumns(nb) : Cell(nb, card, column) = HAS}

\* C29: in every reachable notebook state each card has at most one owner,
\* among the players and the envelope, marked Has; and whenever some owner is
\* marked Has after an operation, every other owner is DoesNotHave.
C29_OneHolderPerCard ==
  \A owner \in DOMAIN notebooks : \A card \in CardNames :
     /\ Cardinality(Holders(notebooks[owner], card)) <= 1
     /\ \A column \in Holders(notebooks[owner], card) :
           \A other \in GridColumns(notebooks[owner]) \ {column} :
              Cell(notebooks[owner], card, other) = NOT_HAS

\* after two operations a notebook has one card held by a player and another
\* held by the envelope
C29_PlayerAndEnvelopeHold ==
  /\ calls = MaxNoteCalls
  /\ \E owner \in DOMAIN notebooks : \E held, hidden \in CardNames :
        /\ Holders(notebooks[owner], held) \cap Callers # {}
        /\ Holders(notebooks[owner], hidden) = {"ENVELOPE"}

\* (disprover, card shown) as record_suggestion may be given them: nobody,
\* a disprover whose card was not seen, a disprover and the card
AnyShowings(named) ==
  {<<None, None>>} \cup (Callers \X {None}) \cup (Callers \X named)

\* record_suggestion was given both a disprover and the card shown
ShownMarked(shown) == shown[1] # None /\ shown[2] # None

\* what record_suggestion did for the players who passed, on the three cards
\* except skipped: Unknown became DoesNotHave, a settled cell was kept
PassesNoted(before, after, named, passed, skipped) ==
  \A player \in Range(passed), card \in named \ skipped :
     Cell(after, card, player) =
        IF Cell(before, card, player) = UNKNOWN THEN NOT_HAS
        ELSE Cell(before, card, player)

\* the shown card is Has for the disprover when both were given; when they
\* were not, no player is newly marked Has
ShownNoted(before, after, shown) ==
  IF ShownMarked(shown)
  THEN Cell(after, shown[2], shown[1]) = HAS
  ELSE \A card \in CardNames, player \in Range(after.all_players) :
          Cell(after, card, player) = HAS => Cell(before, card, player) = HAS

\* the rows of the cards that were neither suggested nor shown are as before
OtherCardsKept(before, after, named, shown) ==
  \A card \in CardNames \ (named \cup {shown[2]}) :
     after.entries[card] = before.entries[card]

\* C30: record_suggestion marks DoesNotHave for a passing player on each of
\* the three suggested cards only where that cell is currently Unknown, leaving
\* a cell that is already Has or DoesNotHave as it is, and marks the shown card
\* as Has for the disprover only when both a disprover and a shown card are
\* given; cells of cards other than the three suggested ones and the shown one
\* are unchanged.
C30_RecordSuggestionEffect ==
  [][last'.op = "record_suggestion" =>
     \A owner \in NoteOwners, named \in NoteTriples, passed \in PassLists :
       \A shown \in AnyShowings(Range(named)) :
          RecordSuggestion(owner, named[1], named[2], named[3],
                           shown[1], shown[2], passed) =>
             /\ PassesNoted(Opened(owner), notebooks'[owner], Range(named), passed, {})
             /\ ShownNoted(Opened(owner), notebooks'[owner], shown)
             /\ OtherCardsKept(Opened(owner), notebooks'[owner], Range(named), shown)]_vars

\* the same, the row of a card that was shown and marked left out of what is
\* required of the passes
C30_EffectBesideShownRow ==
  [][last'.op = "record_suggestion" =>
     \A owner \in NoteOwners, named \in NoteTriples, passed \in PassLists :
       \A shown \in AnyShowings(Range(named)) :
          RecordSuggestion(owner, named[1], named[2], named[3],
                           shown[1], shown[2], passed) =>
             /\ PassesNoted(Opened(owner), notebooks'[owner], Range(named), passed,
                            IF ShownMarked(shown) THEN {shown[2]} ELSE {})
             /\ ShownNoted(Opened(owner), notebooks'[owner], shown)
             /\ OtherCardsKept(Opened(owner), notebooks'[owner], Range(named), shown)]_vars

\* C31: the card shown to disprove a suggestion is revealed only to the
\* suggester: after a disproved make_suggestion the notebook of every player
\* other than the suggester holds no new Has or DoesNotHave fact about the
\* shown card.
C31_ShownCardOnlyToSuggester ==
  [][(/\ last'.op = "make_suggestion"
      /\ last'.ok
      /\ LatestSuggestion'.card_shown # None) =>
        \A n \in DOMAIN notebooks' \ {last'.who} :
           \A column \in GridColumns(notebooks'[n]) :
              Cell(notebooks'[n], LatestSuggestion'.card_shown, column) \in {HAS, NOT_HAS} =>
                 /\ n \in DOMAIN notebooks
                 /\ Cell(notebooks[n], LatestSuggestion'.card_shown, column) =
                      Cell(notebooks'[n], LatestSuggestion'.card_shown, column)]_vars

\* the cell is a door of the player's room and no other hallway player is on it
ExitAllowed(ps, i, door_position) ==
  /\ ps[i].current_room # None
  /\ IsDoorOf(get_cell_type(door_position[1], door_position[2]), ps[i].current_room)
  /\ door_position \notin get_occupied_positions(ps, i)

\* C32: exit_room_to_hallway succeeds only if the given cell is a door of the
\* player's current room and no other hallway player stands on it; on success
\* the player is in the hallway at that cell and moves_remaining has decreased
\* by exactly 1; on failure nothing changes.
C32_ExitRoomToHallway ==
  [][last'.op = "exit_room_to_hallway" =>
     \A who \in Callers, pos \in ExitCells :
        ExitRoomToHallway(who, pos) =>
           IF last'.ok
           THEN /\ ExitAllowed(players, Seat(who), pos)
                /\ players'[Seat(who)].position = pos
                /\ players'[Seat(who)].in_hallway
                /\ players'[Seat(who)].current_room = None
                /\ players'[Seat(who)].moves_remaining =
                     players[Seat(who)].moves_remaining - 1
           ELSE players' = players]_vars

\* C33: a player whose remaining budget is 0 has no legal move: no movement
\* operation (a step to a cell, leaving a room through a door, a secret
\* passage, move_to_room) changes that player's location until dice are
\* rolled again.
C33_NoBudgetNoMove ==
  [][(/\ last'.op \in {"move_to_room", "exit_room_to_hallway"}
      /\ Seat(last'.who) # 0
      /\ players[Seat(last'.who)].moves_remaining = 0) =>
        Location(players'[Seat(last'.who)]) = Location(players[Seat(last'.who)])]_vars

\* the orthogonal neighbours of the cells of a set
Neighbours(cells) == UNION {Range(get_adjacent_cells(c[1], c[2])) : c \in cells}

\* a cell a path may pass through: Hallway or Start, not occupied by another
\* hallway player, not visited this turn
PassThrough(player, occupied, c) ==
  /\ get_cell_type(c[1], c[2]).type \in {"HALLWAY", "START"}
  /\ c \notin occupied
  /\ c \notin player.visited_this_turn

\* the cells at the end of a path of at most k steps from the player's cell,
\* every cell after the first one passable
RECURSIVE WithinSteps(_, _, _)
WithinSteps(player, occupied, k) ==
  IF k = 0 THEN {player.position}
  ELSE LET inner == WithinSteps(player, occupied, k - 1)
       IN inner \cup {c \in Neighbours(inner) : PassThrough(player, occupied, c)}

\* length of a shortest path to the door cell within the budget, 0 if none
DoorDistance(player, occupied, door) ==
  LET lengths == {d \in 1..player.moves_remaining :
                    door \in Neighbours(WithinSteps(player, occupied, d - 1))}
  IN IF lengths = {} THEN 0
     ELSE CHOOSE d \in lengths : \A e \in lengths : d <= e

\* the door cells near enough to be candidates
DoorsNear(player, occupied) ==
  {c \in Neighbours(WithinSteps(player, occupied, player.moves_remaining - 1)) :
     get_cell_type(c[1], c[2]).type = "DOOR" /\ c # player.position}

\* (door cell, room, d) the claim requires get_reachable_rooms to report
RoomsInReach(player, occupied) ==
  IF player.moves_remaining <= 0 \/ player.position = NoPos \/ ~player.in_hallway
  THEN {}
  ELSE {<<door, get_cell_type(door[1], door[2]).room,
          DoorDistance(player, occupied, door)>> : door \in DoorsNear(player, occupied)}

\* (door cell, room, d) of the entries get_reachable_rooms returns
RoomsReported(player, occupied) ==
  {<<e.path[Len(e.path)], e.room, e.distance>> :
      e \in Range(get_reachable_rooms(player, occupied))}

\* C34: get_reachable_rooms reports (room, d) exactly for the door cells that
\* can be reached from the player's current hallway cell by a path of
\* d <= moves_remaining orthogonal steps whose intermediate cells are Hallway
\* or Start cells neither occupied by another hallway player nor visited this
\* turn, d being the length of a shortest such path; with zero budget or no
\* hallway position it reports nothing.
C34_ReachableRoomsExact ==
  \A i \in DOMAIN players :
     RoomsReported(players[i], get_occupied_positions(players, i)) =
        RoomsInReach(players[i], get_occupied_positions(players, i))

\* the cells of the board
BoardCells == (0..(BOARD_HEIGHT - 1)) \X (0..(BOARD_WIDTH - 1))

\* the cells get_cell_type classifies as a door of the room
LayoutDoors(room) ==
  {c \in BoardCells : IsDoorOf(get_cell_type(c[1], c[2]), room)}

\* a cell a player can walk on in the hallway
WalkableHallway(c) == get_cell_type(c[1], c[2]).type \in {"HALLWAY", "START"}

DoorsListed(room) == get_room_doors(room) # <<>>

ListedAreDoors(room) ==
  \A d \in Range(get_room_doors(room)) :
     IsDoorOf(get_cell_type(d[1], d[2]), room)

DoorsAreListed(room) == LayoutDoors(room) \subseteq Range(get_room_doors(room))

DoorOnHallway(room) ==
  \E d \in Range(get_room_doors(room)) :
     \E c \in Range(get_adjacent_cells(d[1], d[2])) : WalkableHallway(c)

\* C35: the board data is consistent for every room: get_room_doors lists at
\* least one cell, every listed cell is classified by get_cell_type as a Door
\* of that same room, every Door cell of the layout is listed, and at least
\* one door of the room is orthogonally adjacent to a walkable hallway cell
\* (stated of the board of every game that has been set up).
C35_BoardDataConsistent ==
  players # <<>> =>
     \A room \in Range(Room) :
        /\ DoorsListed(room)
        /\ ListedAreDoors(room)
        /\ DoorsAreListed(room)
        /\ DoorOnHallway(room)

\* C36: within one turn a player never stands on the same grid cell twice:
\* every cell the player comes to stand on is added to visited_this_turn, and
\* no step or room exit places the player on a cell already in
\* visited_this_turn.
C36_NoCellTwiceInATurn ==
  [][\A i \in DOMAIN players :
       (/\ last'.op \in {"move_to_room", "exit_room_to_hallway"}
        /\ players'[i].position # NoPos
        /\ players'[i].position # players[i].position) =>
          /\ players'[i].position \in players'[i].visited_this_turn
          /\ players'[i].position \notin players[i].visited_this_turn]_vars

\* C37: once game_over is true it stays true and winner never changes
\* afterwards, whatever actions (moves, suggestions, accusations by any player,
\* turn advances) are attempted; and in every state game_over implies that
\* winner is the name of one of the players.
C37_GameOverIsFinal ==
  [][/\ game_over => (game_over' /\ winner' = winner)
     /\ game_over' => winner' \in {players'[i].name : i \in DOMAIN players'}]_vars

\* the suggestions of a player recorded in the history
SuggestionsBy(name) ==
  {k \in DOMAIN suggestion_history : suggestion_history[k].suggester = name}

\* C38: a player makes at most one successful suggestion per turn: between two
\* consecutive turn advances no player has two suggestions recorded in
\* suggestion_history, whether the player entered the room by their own
\* movement or was pulled into it by a suggestion (stated of the first turn,
\* before any turn advance, when the whole history belongs to the turn).
C38_OneSuggestionPerTurn ==
  turn_number = 1 =>
     \A i \in DOMAIN players : Cardinality(SuggestionsBy(players[i].name)) <= 1

\* the players standing in the hallway on a grid cell
HallwaySeats == {i \in DOMAIN players : players[i].in_hallway /\ players[i].position # NoPos}

\* C39: in every reachable state no two distinct players that are both in the
\* hallway (in_hallway true, position set) are on the same grid cell: neither
\* a step nor a room exit ever places a player on a cell where another hallway
\* player stands.
C39_NoSharedHallwayCell ==
  \A i, j \in HallwaySeats : i # j => players[i].position # players[j].position

\* a room exit has just been refused because another player, who left the
\* same room before, stands on the door
C39_ExitRefusedByOccupant ==
  /\ last.op = "exit_room_to_hallway"
  /\ ~last.ok
  /\ Seat(last.who) # 0
  /\ players[Seat(last.who)].current_room # None
  /\ \E j \in HallwaySeats :
        IsDoorOf(get_cell_type(players[j].position[1], players[j].position[2]),
                 players[Seat(last.who)].current_room)

\* the cell is inside the board and is a Hallway, Start or Door cell
WalkableCell(c) ==
  /\ c[1] \in 0..(BOARD_HEIGHT - 1)
  /\ c[2] \in 0..(BOARD_WIDTH - 1)
  /\ get_cell_type(c[1], c[2]).type \in {"HALLWAY", "START", "DOOR"}

\* C40: whenever a player has a grid position, including the starting
\* position assigned at setup for each of the six characters, that position is
\* inside the board and is a walkable cell (Hallway, Start or Door) according
\* to get_cell_type, never a Wall or a room-interior cell.
C40_PositionsWalkable ==
  \A i \in DOMAIN players :
     players[i].position # NoPos => WalkableCell(players[i].position)
====
